---- MODULE Spec2Model ----
(***************************************************************************)
(* Session orchestration core of better-browser-use: the session registry  *)
(* and its per-session lock (browser_engine.py), the request handlers and  *)
(* background sweeper (server.py) and the sliding-window rate limiter      *)
(* (rate_limiter.py).                                                      *)
(*                                                                         *)
(* Spec          session lifecycle: requests, idle sweeper, shutdown       *)
(* SpecDispatch  the action pipeline of _execute_single_action with the    *)
(*               shared rate limiter                                       *)
(***************************************************************************)
EXTENDS Integers, Sequences, FiniteSets, TLC

\* ------------------------------------------------------------------------
\* Bounds of the model
\* ------------------------------------------------------------------------
SessionIds == {"s1", "s2"}
Reqs == {"r1", "r2"}
\* the sessions the modelled clients address
Targets == {"s1"}
\* longest batch a request carries (steps)
MaxBatch == 2
\* the lifecycle clock advances in steps of TickStep seconds up to MaxNow
TickStep == 3600
MaxNow == 7200

\* Config.SESSION_IDLE_TTL, seconds
SESSION_IDLE_TTL == 3600

Ops == {"action", "actions", "snapshot", "screenshot", "save", "close"}
\* outcome of a browser call made under the lock
ExecOutcomes == {"ok", "fail"}

VARIABLES
    registry,        \* browser_engine._sessions: its keys, in insertion order
    closing,         \* session["closing"]
    last_activity,   \* session["last_activity"]
    lock,            \* session["lock"]: the request holding it, or "none"
    launched,        \* session ids launch() has handed out
    now,             \* time.monotonic(), seconds
    req,             \* one record per HTTP request handler
    sweeper,         \* the _session_sweeper task
    shutdown         \* the on_cleanup callback cleanup()

lifeVars == <<registry, closing, last_activity, lock, launched, now, req, sweeper, shutdown>>

VARIABLES
    page_url,        \* netloc of page.url of each session's active page
    act,             \* _execute_single_action of each session: idle or awaiting the verb
    windows,         \* RateLimiter._windows: per domain, timestamps oldest first
    clock,           \* time.monotonic() as the dispatcher reads it, seconds
    last,            \* the dispatcher step just taken: who asked what, and the answer
    landed           \* history: every timestamp record() appended, per domain

dispatchVars == <<page_url, act, windows, clock, last, landed>>

VARIABLES
    limits,          \* the `limits` argument a RateLimiter is constructed with
    lookup           \* the latest _get_limit call on that limiter: domain and result

policyVars == <<limits, lookup>>

VARIABLES
    loop_window,     \* ActionLoopDetector._window of one session, oldest entry first
    loop_result      \* what the latest ActionLoopDetector.record call returned

loopVars == <<loop_window, loop_result>>

VARIABLES
    cur_url,         \* page.url of the active page of that session
    ref_map,         \* session["ref_map"], the stored ref map
    action_count,    \* session["action_count"]
    issued,          \* requests the session has answered so far
    reply            \* the latest response and what the request carried

pipeVars == <<cur_url, ref_map, action_count, issued, reply>>

VARIABLES
    batch,           \* the `actions` request being served: its list length, flags, loop index
    results,         \* the `results` list of _do_batch so far, one code per step
    batch_out,       \* the response to the `actions` request
    used,            \* the ref map the latest step handed to its verb
    last_snap        \* the refs the latest successful snapshot step of the batch produced

batchVars == <<batch, results, batch_out, used, last_snap>>

VARIABLES
    handled,         \* the dict handle_request_inner returned, as a list of its fields
    sent             \* the dict handle_http passes to web.json_response

envelopeVars == <<handled, sent>>

\* the state of the components that follow the action pipeline
VARIABLES
    fsm,             \* AgentFSM._state: name, since_ms, deadline_ms, epoch
    fsm_event,       \* the latest call on the FSM and how it ended
    fsm_now          \* what _now_ms() returns to the FSM

fsmVars == <<fsm, fsm_event, fsm_now>>

VARIABLES
    pages,           \* session["context"].pages: the open tabs in order, each with id and url
    active,          \* session["page"], by the id of the page
    created,         \* pages the context has created so far
    tab_event        \* the latest tab call and what it returned

tabVars == <<pages, active, created, tab_event>>

VARIABLES
    snap,            \* what the latest take_snapshot call returned
    session_refs     \* the session's stored ref map, entry by entry

snapVars == <<snap, session_refs>>

VARIABLES
    disk,            \* the paths that exist at or under the profile root
    touched,         \* the paths the latest profile operation read or wrote
    profile_event    \* the latest profile operation and what it returned

profileVars == <<disk, touched, profile_event>>

VARIABLES
    cred_call,       \* the latest resolve_credential call: the store and the value
    cred_out         \* what it returned

credVars == <<cred_call, cred_out>>

VARIABLES
    blocked_call,    \* the page the latest is_blocked call looked at
    blocked_out      \* what it returned

blockVars == <<blocked_call, blocked_out>>

VARIABLES
    prev_refs,       \* the previous-snapshot cache of one session
    at_host,         \* the host of the session's page
    diff_out,        \* the latest snapshot of the session, with its diff
    diff_pages       \* the aria text of the previous successful snapshot and of the latest

diffVars == <<prev_refs, at_host, diff_out, diff_pages>>

VARIABLES
    classify_msg,    \* the message of the error the latest classify_error call was given
    classify_code    \* the code of the BrowserError it returned

classifyVars == <<classify_msg, classify_code>>

lateVars == <<profileVars, credVars, blockVars, diffVars, classifyVars>>

earlyVars ==
    <<lifeVars, dispatchVars, policyVars, loopVars, pipeVars, batchVars, envelopeVars, fsmVars,
      tabVars, snapVars>>

restVars == <<batchVars, envelopeVars, fsmVars, tabVars, snapVars, lateVars>>

\* what a step of the session lifecycle leaves alone, a step of the
\* dispatcher, a step on a separately constructed limiter, a step of the
\* loop detector, a request served by the action pipeline, and a step of a
\* batch
OutsideLife == UNCHANGED <<dispatchVars, policyVars, loopVars, pipeVars, restVars>>

OutsideDispatch == UNCHANGED <<lifeVars, policyVars, loopVars, pipeVars, restVars>>

OutsidePolicy == UNCHANGED <<lifeVars, dispatchVars, loopVars, pipeVars, restVars>>

OutsideLoop == UNCHANGED <<lifeVars, dispatchVars, policyVars, pipeVars, restVars>>

OutsidePipe == UNCHANGED <<lifeVars, dispatchVars, policyVars, restVars>>

OutsideBatch ==
    UNCHANGED <<lifeVars, policyVars, cur_url, issued, reply, envelopeVars, fsmVars, tabVars,
                snapVars, lateVars>>

OutsideEnvelope ==
    UNCHANGED <<lifeVars, dispatchVars, policyVars, loopVars, pipeVars, batchVars, fsmVars,
                tabVars, snapVars, lateVars>>

OutsideFsm ==
    UNCHANGED <<lifeVars, dispatchVars, policyVars, loopVars, pipeVars, batchVars,
                envelopeVars, tabVars, snapVars, lateVars>>

OutsideTabs ==
    UNCHANGED <<lifeVars, dispatchVars, policyVars, loopVars, pipeVars, batchVars,
                envelopeVars, fsmVars, snapVars, lateVars>>

OutsideSnap ==
    UNCHANGED <<lifeVars, dispatchVars, policyVars, loopVars, pipeVars, batchVars,
                envelopeVars, fsmVars, tabVars, lateVars>>

OutsideProfile == UNCHANGED <<earlyVars, credVars, blockVars, diffVars, classifyVars>>

OutsideCred == UNCHANGED <<earlyVars, profileVars, blockVars, diffVars, classifyVars>>

OutsideBlock == UNCHANGED <<earlyVars, profileVars, credVars, diffVars, classifyVars>>

OutsideDiff == UNCHANGED <<earlyVars, profileVars, credVars, blockVars, classifyVars>>

OutsideClassify == UNCHANGED <<earlyVars, profileVars, credVars, blockVars, diffVars>>

vars == <<lifeVars, dispatchVars, policyVars, loopVars, pipeVars, restVars>>

\* ------------------------------------------------------------------------
\* Helpers on sequences
\* ------------------------------------------------------------------------
Contains(seq, x) == \E i \in 1..Len(seq) : seq[i] = x

Remove(seq, x) == SelectSeq(seq, LAMBDA y : y # x)

\* ------------------------------------------------------------------------
\* browser_engine.py: session helpers
\* ------------------------------------------------------------------------
\* get_session_lock: the session's lock, None when the id is not registered
get_session_lock(s) == IF Contains(registry, s) THEN "lock" ELSE "None"

\* get_page / get_context: None when the session is absent or closing
GetPageNoClosingCheck(s) == IF Contains(registry, s) THEN "page" ELSE "None"

get_page(s) == IF Contains(registry, s) /\ ~closing[s] THEN "page" ELSE "None"

get_context(s) == IF Contains(registry, s) /\ ~closing[s] THEN "context" ELSE "None"

\* touch_session: last_activity := now, when the session is registered
touch_session(s) == IF Contains(registry, s)
                    THEN [last_activity EXCEPT ![s] = now]
                    ELSE last_activity

\* asyncio.Lock: acquire succeeds only while nobody holds it
LockFreeAlways(s) == TRUE

LockFree(s) == lock[s] = "none"

IdleReq == [pc |-> "idle", op |-> "none", sid |-> "none", left |-> 0,
            stop |-> TRUE, save |-> FALSE, res |-> "none"]

\* a request is inside the critical section of its session
InCS(r) == req[r].pc \in {"exec", "closesave", "teardown"}

\* close() calls whose tier teardown is in progress on session s
ClosersOf(s) ==
    {r \in Reqs : req[r].pc = "teardown" /\ req[r].sid = s}
    \cup (IF sweeper.pc = "teardown" /\ sweeper.cur = s THEN {"sweeper"} ELSE {})
    \cup (IF shutdown.pc = "teardown" /\ shutdown.cur = s THEN {"shutdown"} ELSE {})

LifeInit ==
    /\ registry = <<>>
    /\ closing = [s \in SessionIds |-> FALSE]
    /\ last_activity = [s \in SessionIds |-> 0]
    /\ lock = [s \in SessionIds |-> "none"]
    /\ launched = {}
    /\ now = 0
    /\ req = [r \in Reqs |-> IdleReq]
    /\ sweeper = [pc |-> "sleep", now |-> 0, keys |-> <<>>, cur |-> "none", reaped |-> <<>>]
    /\ shutdown = [pc |-> "off", keys |-> <<>>, cur |-> "none"]

\* time passes
Tick ==
    /\ now + TickStep <= MaxNow
    /\ now' = now + TickStep
    /\ UNCHANGED <<registry, closing, last_activity, lock, launched, req, sweeper, shutdown>>
    /\ OutsideLife

\* launch(): a fresh id is registered with closing unset and a free lock
launch(s) ==
    /\ shutdown.pc = "off"
    /\ s \notin launched
    /\ launched' = launched \cup {s}
    /\ registry' = Append(registry, s)
    /\ closing' = [closing EXCEPT ![s] = FALSE]
    /\ last_activity' = [last_activity EXCEPT ![s] = now]
    /\ lock' = [lock EXCEPT ![s] = "none"]
    /\ UNCHANGED <<now, req, sweeper, shutdown>>
    /\ OutsideLife

\* ------------------------------------------------------------------------
\* server.py: request handlers under _with_session_lock
\* ------------------------------------------------------------------------
\* the handler returns: its result is set and the lock is released
Finished(r, q, res) ==
    /\ req' = [req EXCEPT ![r] = [IdleReq EXCEPT !.pc = "done", !.op = q.op,
                                                  !.sid = q.sid, !.res = res]]
    /\ lock' = [lock EXCEPT ![q.sid] = "none"]

\* the handler awaits a browser call while holding the lock
Running(r, q, pc) ==
    /\ req' = [req EXCEPT ![r] = [q EXCEPT !.pc = pc]]
    /\ lock' = [lock EXCEPT ![q.sid] = r]

\* _do_batch: the next step of the loop; a step whose get_page is None fails
\* without a browser call, and with stop_on_error unset the loop runs on
BatchAdvance(r, q) ==
    IF q.left = 0 THEN Finished(r, q, "ok")
    ELSE IF get_page(q.sid) # "None"
         THEN Running(r, [q EXCEPT !.left = q.left - 1], "exec")
         ELSE Finished(r, q, IF q.stop THEN "notfound" ELSE "ok")

\* close(): session lookup, closing := True, then the await of tier teardown
CloseStart(r, q) ==
    IF ~Contains(registry, q.sid)
    THEN Finished(r, q, "notfound") /\ UNCHANGED closing
    ELSE /\ closing' = [closing EXCEPT ![q.sid] = TRUE]
         /\ Running(r, [q EXCEPT !.save = FALSE], "teardown")

\* _with_session_lock once the lock is held: touch_session, then coro_fn up
\* to its first await
EnterCS(r, q) ==
    /\ last_activity' = touch_session(q.sid)
    /\ CASE q.op \in {"action", "snapshot", "screenshot"} ->
              /\ IF get_page(q.sid) = "None"
                 THEN Finished(r, q, "notfound")
                 ELSE Running(r, q, "exec")
              /\ UNCHANGED closing
         [] q.op = "actions" -> BatchAdvance(r, q) /\ UNCHANGED closing
         [] q.op = "save" ->
              /\ IF get_context(q.sid) = "None"
                 THEN Finished(r, q, "notfound")
                 ELSE \E valid \in BOOLEAN :
                        IF valid THEN Running(r, q, "exec") ELSE Finished(r, q, "fail")
              /\ UNCHANGED closing
         [] q.op = "close" ->
              IF q.save /\ get_context(q.sid) # "None"
              THEN Running(r, q, "closesave") /\ UNCHANGED closing
              ELSE CloseStart(r, q)

\* handle_request_inner: the request names an op and a session; without a
\* registered session there is no lock and the request fails at once
handle_request_inner(r, o, s, n, stop, sv) ==
    /\ shutdown.pc = "off"
    /\ req[r].pc \in {"idle", "done"}
    /\ LET q == [pc |-> "wait", op |-> o, sid |-> s, left |-> n, stop |-> stop,
                 save |-> sv, res |-> "none"] IN
       IF get_session_lock(s) = "None"
       THEN /\ req' = [req EXCEPT ![r] = [IdleReq EXCEPT !.pc = "done", !.op = o,
                                                        !.sid = s, !.res = "notfound"]]
            /\ UNCHANGED <<lock, closing, last_activity>>
       ELSE IF LockFree(s)
            THEN EnterCS(r, q)
            ELSE req' = [req EXCEPT ![r] = q] /\ UNCHANGED <<lock, closing, last_activity>>
    /\ UNCHANGED <<registry, launched, now, sweeper, shutdown>>
    /\ OutsideLife

\* a waiter gets the lock after its holder released it
Acquire(r) ==
    /\ req[r].pc = "wait"
    /\ LockFree(req[r].sid)
    /\ EnterCS(r, req[r])
    /\ UNCHANGED <<registry, launched, now, sweeper, shutdown>>
    /\ OutsideLife

\* the awaited browser call of an action, snapshot, screenshot, save or batch
\* step returns; a batch goes on to its next step under the same lock hold
Complete(r, out) ==
    /\ req[r].pc = "exec"
    /\ IF req[r].op = "actions" /\ ~(out = "fail" /\ req[r].stop)
       THEN BatchAdvance(r, req[r])
       ELSE Finished(r, req[r], out)
    /\ UNCHANGED <<registry, closing, last_activity, launched, now, sweeper, shutdown>>
    /\ OutsideLife

\* _do_close: save_state returned, close() follows; an exception of save_state
\* leaves _do_close before close() is called
CompleteCloseSave(r, out) ==
    /\ req[r].pc = "closesave"
    /\ IF out = "ok" THEN CloseStart(r, req[r])
       ELSE Finished(r, req[r], "raised") /\ UNCHANGED closing
    /\ UNCHANGED <<registry, last_activity, launched, now, sweeper, shutdown>>
    /\ OutsideLife

\* ------------------------------------------------------------------------
\* browser_engine.close() after the await of teardown
\* ------------------------------------------------------------------------
\* what the rest of close() meets: teardown raised, teardown returned and the
\* session file's unlink raised, or all of it went through
CloseOutcomes == {"teardown_raise", "unlink_raise", "ok"}

\* teardown raised: closing is reset and the entry kept; otherwise the entry
\* is popped (before the session file is unlinked)
RegistryAfterClose(reg, s, out) ==
    IF out = "teardown_raise" THEN reg ELSE Remove(reg, s)

ClosingAfterClose(clos, s, out) == [clos EXCEPT ![s] = FALSE]

close_finish(s, out) ==
    /\ registry' = RegistryAfterClose(registry, s, out)
    /\ closing' = ClosingAfterClose(closing, s, out)

\* what close() hands to its caller
close_result(out) ==
    CASE out = "teardown_raise" -> "fail"
      [] out = "unlink_raise" -> "raised"
      [] out = "ok" -> "ok"

\* a client close under the lock: teardown is over
TeardownDone(r, out) ==
    /\ req[r].pc = "teardown"
    /\ close_finish(req[r].sid, out)
    /\ Finished(r, req[r], close_result(out))
    /\ UNCHANGED <<last_activity, launched, now, sweeper, shutdown>>
    /\ OutsideLife

\* ------------------------------------------------------------------------
\* browser_engine.sweep_idle_sessions, driven by server._session_sweeper
\* ------------------------------------------------------------------------
\* the loop's test on one key: registered, not closing, idle for more than ttl
\* (idle is measured from the time t0 read when the pass began)
IdleTest(s, reg, clos, t0) ==
    /\ Contains(reg, s)
    /\ ~clos[s]
    /\ t0 - last_activity[s] > SESSION_IDLE_TTL

RECURSIVE SkipToIdle(_, _, _, _)
\* the keys still to visit, from the first one the loop closes
SkipToIdle(keys, reg, clos, t0) ==
    IF keys = <<>> THEN <<>>
    ELSE IF IdleTest(Head(keys), reg, clos, t0) THEN keys
         ELSE SkipToIdle(Tail(keys), reg, clos, t0)

\* the loop runs until it awaits close() on an idle session or runs out of keys
SweepRun(keys, reg, clos, reaped, t0) ==
    LET rest == SkipToIdle(keys, reg, clos, t0) IN
    IF rest = <<>>
    THEN /\ sweeper' = [pc |-> "sleep", now |-> t0, keys |-> <<>>, cur |-> "none",
                        reaped |-> reaped]
         /\ closing' = clos
    ELSE /\ sweeper' = [pc |-> "teardown", now |-> t0, keys |-> Tail(rest),
                        cur |-> Head(rest), reaped |-> reaped]
         /\ closing' = [clos EXCEPT ![Head(rest)] = TRUE]

\* asyncio.sleep(interval) is over: one pass over a copy of the keys begins
sweep_idle_sessions ==
    /\ shutdown.pc = "off"
    /\ sweeper.pc = "sleep"
    /\ SweepRun(registry, registry, closing, <<>>, now)
    /\ UNCHANGED <<registry, last_activity, lock, launched, now, req, shutdown>>
    /\ OutsideLife

\* a sweeper whose task ends with the first close() that does not succeed
SweepEndsOnError(out) ==
    /\ sweeper.pc = "teardown"
    /\ registry' = RegistryAfterClose(registry, sweeper.cur, out)
    /\ closing' = ClosingAfterClose(closing, sweeper.cur, out)
    /\ sweeper' = [sweeper EXCEPT !.pc = IF out = "ok" THEN "sleep" ELSE "ended",
                                  !.keys = <<>>, !.cur = "none"]
    /\ UNCHANGED <<last_activity, lock, launched, now, req, shutdown>>
    /\ OutsideLife

\* the close() awaited by the pass returns or raises; the id is appended to
\* reaped unless close() raised, and the loop goes on
SweepTeardownDone(out) ==
    /\ sweeper.pc = "teardown"
    /\ LET s == sweeper.cur
           reg2 == RegistryAfterClose(registry, s, out)
           clos2 == ClosingAfterClose(closing, s, out)
           reaped2 == IF close_result(out) = "raised" THEN sweeper.reaped
                      ELSE Append(sweeper.reaped, s)
       IN /\ registry' = reg2
          /\ SweepRun(sweeper.keys, reg2, clos2, reaped2, sweeper.now)
    /\ UNCHANGED <<last_activity, lock, launched, now, req, shutdown>>
    /\ OutsideLife

\* ------------------------------------------------------------------------
\* server.cleanup: the sweeper is cancelled, then every listed session closed
\* ------------------------------------------------------------------------
RECURSIVE SkipMissing(_, _)
\* close() of an id that is no longer registered returns at once
SkipMissing(keys, reg) ==
    IF keys = <<>> THEN <<>>
    ELSE IF Contains(reg, Head(keys)) THEN keys ELSE SkipMissing(Tail(keys), reg)

CleanupRun(keys, reg, clos) ==
    LET rest == SkipMissing(keys, reg) IN
    IF rest = <<>>
    THEN /\ shutdown' = [pc |-> "done", keys |-> <<>>, cur |-> "none"]
         /\ closing' = clos
    ELSE /\ shutdown' = [pc |-> "teardown", keys |-> Tail(rest), cur |-> Head(rest)]
         /\ closing' = [clos EXCEPT ![Head(rest)] = TRUE]

\* the server stops once its handlers are through; a sweeper cancelled inside
\* close() leaves through CancelledError, which no except clause of close()
\* or of the pass catches, so closing stays as close() set it
cleanup ==
    /\ shutdown.pc = "off"
    /\ \A r \in Reqs : req[r].pc \in {"idle", "done"}
    /\ sweeper' = [sweeper EXCEPT !.pc = "cancelled", !.keys = <<>>, !.cur = "none"]
    /\ CleanupRun(registry, registry, closing)
    /\ UNCHANGED <<registry, last_activity, lock, launched, now, req>>
    /\ OutsideLife

\* a close() of cleanup returns or raises (the exception is swallowed)
CleanupTeardownDone(out) ==
    /\ shutdown.pc = "teardown"
    /\ LET s == shutdown.cur
           reg2 == RegistryAfterClose(registry, s, out)
           clos2 == ClosingAfterClose(closing, s, out)
       IN /\ registry' = reg2
          /\ CleanupRun(shutdown.keys, reg2, clos2)
    /\ UNCHANGED <<last_activity, lock, launched, now, req, sweeper>>
    /\ OutsideLife

\* ------------------------------------------------------------------------
\* rate_limiter.py
\* ------------------------------------------------------------------------
\* the sessions whose requests the dispatcher serves, one request at a time
\* each (the session lock), and the hosts their pages are on
Clients == {"a", "b"}
Domains == {"www.linkedin.com", "example.com"}
Verbs == {"navigate", "click", "snapshot"}
\* the dispatcher clock advances in steps of ClockStep seconds up to MaxClock
ClockStep == 30
MaxClock == 90
\* record() calls plus verbs in flight, over a whole run
MaxRecords == 5

EXEMPT_ACTIONS == {"snapshot", "screenshot", "wait", "done", "cookies_get", "tab_switch"}

\* Config.SENSITIVE_RATE_LIMITS, in the order of the dict
SENSITIVE_RATE_LIMITS == <<
    [pattern |-> "default", limit |-> 8],
    [pattern |-> "linkedin.com", limit |-> 4],
    [pattern |-> "facebook.com", limit |-> 5],
    [pattern |-> "twitter.com", limit |-> 6],
    [pattern |-> "x.com", limit |-> 6],
    [pattern |-> "instagram.com", limit |-> 4] >>

\* the sliding window of _prune, seconds
WINDOW_SECONDS == 60

\* self._limits.get("default", 8)
FALLBACK_LIMIT == 8

\* the characters of the strings that are matched against each other
Chars(str) ==
    CASE str = "linkedin.com" -> <<"l","i","n","k","e","d","i","n",".","c","o","m">>
      [] str = "facebook.com" -> <<"f","a","c","e","b","o","o","k",".","c","o","m">>
      [] str = "twitter.com" -> <<"t","w","i","t","t","e","r",".","c","o","m">>
      [] str = "x.com" -> <<"x",".","c","o","m">>
      [] str = "in.com" -> <<"i","n",".","c","o","m">>
      [] str = "instagram.com" -> <<"i","n","s","t","a","g","r","a","m",".","c","o","m">>
      [] str = "www.linkedin.com" ->
            <<"w","w","w",".","l","i","n","k","e","d","i","n",".","c","o","m">>
      [] str = "example.com" -> <<"e","x","a","m","p","l","e",".","c","o","m">>

\* Python's `pattern in domain` on strings
IsSubstring(p, d) ==
    \E i \in 0..(Len(d) - Len(p)) : SubSeq(d, i + 1, i + Len(p)) = p

RECURSIVE LimitLookup(_, _)
\* the first entry of the table, in dict order, whose pattern occurs in the domain
LimitLookup(items, domain) ==
    IF items = <<>> THEN 0
    ELSE IF Head(items).pattern # "default"
            /\ IsSubstring(Chars(Head(items).pattern), Chars(domain))
         THEN Head(items).limit
         ELSE LimitLookup(Tail(items), domain)

RECURSIVE DefaultLimit(_)
DefaultLimit(items) ==
    IF items = <<>> THEN FALLBACK_LIMIT
    ELSE IF Head(items).pattern = "default" THEN Head(items).limit
         ELSE DefaultLimit(Tail(items))

\* _get_limit on a limiter whose self._limits holds the given items
LimitOf(items, domain) ==
    LET hit == LimitLookup(items, domain) IN
    IF hit # 0 THEN hit ELSE DefaultLimit(items)

\* the singleton get_rate_limiter() builds: self._limits is the Config table
_get_limit(domain) == LimitOf(SENSITIVE_RATE_LIMITS, domain)

RECURSIVE _prune(_, _)
\* drop timestamps from the left while they are older than now - 60
_prune(window, t) ==
    IF window # <<>> /\ Head(window) < t - WINDOW_SECONDS
    THEN _prune(Tail(window), t)
    ELSE window

\* check(): True = allowed; the window is pruned as a side effect
CheckAtLeastOneOver(window, domain, t) == Len(_prune(window, t)) <= _get_limit(domain)

check(window, domain, t) == Len(_prune(window, t)) < _get_limit(domain)

\* record(): prune, then append now
record(window, t) == Append(_prune(window, t), t)

\* wait_time(): 0 when allowed, else the time until the oldest entry expires
wait_time(window, domain, t) ==
    LET w == _prune(window, t) IN
    IF Len(w) < _get_limit(domain) THEN 0
    ELSE IF w[1] + WINDOW_SECONDS - t > 0 THEN w[1] + WINDOW_SECONDS - t ELSE 0

\* ------------------------------------------------------------------------
\* server.py: _execute_single_action
\* ------------------------------------------------------------------------
IdleAct == [pc |-> "idle", verb |-> "none"]

NoEvent == [sid |-> "none", verb |-> "none", code |-> "none", wait_seconds |-> -1]

DispatchInit ==
    /\ page_url = [s \in Clients |-> "example.com"]
    /\ act = [s \in Clients |-> IdleAct]
    /\ windows = [d \in Domains |-> <<>>]
    /\ clock = 0
    /\ last = NoEvent
    /\ landed = [d \in Domains |-> <<>>]

RECURSIVE SumLen(_, _)
SumLen(f, D) ==
    IF D = {} THEN 0
    ELSE LET d == CHOOSE x \in D : TRUE IN Len(f[d]) + SumLen(f, D \ {d})

\* the run has room for another verb
Budget ==
    SumLen(landed, Domains) + Cardinality({s \in Clients : act[s].pc = "exec"}) < MaxRecords

\* line 203: usage is recorded for a successful verb outside the exempt set
ShouldRecordWhateverResult(verb, success) == verb \notin EXEMPT_ACTIONS

ShouldRecord(verb, success) == verb \notin EXEMPT_ACTIONS /\ success

\* time passes
ClockTick ==
    /\ clock + ClockStep <= MaxClock
    /\ clock' = clock + ClockStep
    /\ last' = NoEvent
    /\ UNCHANGED <<page_url, act, windows, landed>>
    /\ OutsideDispatch

\* the request is refused: check() said no, wait_time() reads the clock again
\* after eps more seconds and the RATE_LIMITED answer carries its value
RateLimited(s, verb, eps) ==
    LET d == page_url[s]
        t2 == clock + eps
        w1 == _prune(windows[d], clock)
    IN /\ verb \notin EXEMPT_ACTIONS
       /\ ~check(windows[d], d, clock)
       /\ t2 <= MaxClock
       /\ clock' = t2
       /\ windows' = [windows EXCEPT ![d] = _prune(w1, t2)]
       /\ last' = [sid |-> s, verb |-> verb, code |-> "RATE_LIMITED",
                   wait_seconds |-> wait_time(w1, d, t2)]
       /\ UNCHANGED <<page_url, act, landed>>

\* the request goes through to actions.execute_action
Admitted(s, verb) ==
    LET d == page_url[s] IN
    /\ verb \in EXEMPT_ACTIONS \/ check(windows[d], d, clock)
    /\ windows' = IF verb \in EXEMPT_ACTIONS THEN windows
                  ELSE [windows EXCEPT ![d] = _prune(@, clock)]
    /\ act' = [act EXCEPT ![s] = [pc |-> "exec", verb |-> verb]]
    /\ last' = [sid |-> s, verb |-> verb, code |-> "STARTED", wait_seconds |-> -1]
    /\ UNCHANGED <<page_url, clock, landed>>

\* _execute_single_action from its entry to the await of the verb
execute_begin(s, verb) ==
    /\ act[s].pc = "idle"
    /\ Budget
    /\ \/ \E eps \in {0, ClockStep} : RateLimited(s, verb, eps)
       \/ Admitted(s, verb)
    /\ OutsideDispatch

\* where the page is once the verb is through: a navigate or click that
\* succeeded may have led to any host
HostsAfter(s, verb, success) ==
    IF success /\ verb \in {"navigate", "click"} THEN Domains ELSE {page_url[s]}

\* the verb returned, with usage recorded against the host the page was on
\* when the request came in
ExecuteEndAtOrigin(s, success, d2) ==
    /\ act[s].pc = "exec"
    /\ d2 \in HostsAfter(s, act[s].verb, success)
    /\ page_url' = [page_url EXCEPT ![s] = d2]
    /\ IF ShouldRecord(act[s].verb, success)
       THEN /\ windows' = [windows EXCEPT ![page_url[s]] = record(@, clock)]
            /\ landed' = [landed EXCEPT ![page_url[s]] = Append(@, clock)]
       ELSE UNCHANGED <<windows, landed>>
    /\ act' = [act EXCEPT ![s] = IdleAct]
    /\ last' = [sid |-> s, verb |-> act[s].verb, code |-> IF success THEN "OK" ELSE "FAIL",
                wait_seconds |-> -1]
    /\ UNCHANGED clock
    /\ OutsideDispatch

\* the verb returned: usage is recorded against the host of the page as it is now
execute_end(s, success, d2) ==
    /\ act[s].pc = "exec"
    /\ d2 \in HostsAfter(s, act[s].verb, success)
    /\ page_url' = [page_url EXCEPT ![s] = d2]
    /\ IF ShouldRecord(act[s].verb, success)
       THEN /\ windows' = [windows EXCEPT ![d2] = record(@, clock)]
            /\ landed' = [landed EXCEPT ![d2] = Append(@, clock)]
       ELSE UNCHANGED <<windows, landed>>
    /\ act' = [act EXCEPT ![s] = IdleAct]
    /\ last' = [sid |-> s, verb |-> act[s].verb, code |-> IF success THEN "OK" ELSE "FAIL",
                wait_seconds |-> -1]
    /\ UNCHANGED clock
    /\ OutsideDispatch

\* ------------------------------------------------------------------------
\* rate_limiter.py: a limiter constructed with a policy table of its own
\* ------------------------------------------------------------------------
\* longest table the model constructs a limiter with
MaxTable == 3
PolicyKeys == {"default", "linkedin.com", "in.com", "x.com"}
PolicyLimits == {2, 4, 6}
PolicyDomains == {"www.linkedin.com", "example.com"}

PolicyEntries == [pattern : PolicyKeys, limit : PolicyLimits]

\* dicts: no key twice, items in insertion order
PolicyTables ==
    {tb \in UNION {[1..n -> PolicyEntries] : n \in 0..MaxTable} :
        \A i, j \in 1..Len(tb) : i # j => tb[i].pattern # tb[j].pattern}

\* __init__: self._limits = limits or Config.SENSITIVE_RATE_LIMITS
EffectiveLimits(arg) == IF arg = <<>> THEN SENSITIVE_RATE_LIMITS ELSE arg

NoLookup == [domain |-> "none", limit |-> 0]

\* get_rate_limiter(): the singleton is constructed without a table
PolicyIdle ==
    /\ limits = <<>>
    /\ lookup = NoLookup

PolicyInit ==
    /\ limits \in PolicyTables
    /\ lookup = NoLookup

\* one call of _get_limit
GetLimitCall(d) ==
    /\ lookup' = [domain |-> d, limit |-> LimitOf(EffectiveLimits(limits), d)]
    /\ UNCHANGED limits
    /\ OutsidePolicy

\* ------------------------------------------------------------------------
\* models.py: PageFingerprint and ActionLoopDetector
\* ------------------------------------------------------------------------
\* ActionLoopDetector(window_size=10, threshold=3)
LOOP_WINDOW_SIZE == 10
LOOP_THRESHOLD == 3
\* how many different (action, page) pairs a window of the model mixes
MaxDistinct == 2

\* fingerprint=None, in the shape of a fingerprint
NoFingerprint ==
    [url_hash |-> "None", interactive_count |-> 0, tab_count |-> 0, top_ref_keys |-> {}]

\* pages an action can be recorded on: a page; one that shares one of its two
\* top refs (similarity 0.85); one at the same URL with another number of
\* interactive elements and another tab count (similarity 0.7)
LoopFingerprints ==
    { [url_hash |-> "u1", interactive_count |-> 2, tab_count |-> 1, top_ref_keys |-> {"k1", "k2"}],
      [url_hash |-> "u1", interactive_count |-> 2, tab_count |-> 1, top_ref_keys |-> {"k1", "k3"}],
      [url_hash |-> "u1", interactive_count |-> 3, tab_count |-> 2, top_ref_keys |-> {"k1", "k2", "k4"}] }

\* what record() appends: compute_action_hash(action_name, params) and the
\* fingerprint it was given, or None
LoopEntries ==
    [hash : {"h1"}, fp : LoopFingerprints \cup {NoFingerprint}]
    \cup {[hash |-> "h2", fp |-> NoFingerprint]}

\* PageFingerprint.similarity in units of 1/25200 (0.5 = 12600, 0.1 = 2520,
\* 0.3 = 7560, 1.0 = 25200), so that overlap / max_len stays exact
similarity(a, b) ==
    IF a.url_hash # b.url_hash THEN 0
    ELSE LET base == 12600 + (IF a.tab_count = b.tab_count THEN 2520 ELSE 0)
                           + (IF a.interactive_count = b.interactive_count THEN 2520 ELSE 0)
             la == Cardinality(a.top_ref_keys)
             lb == Cardinality(b.top_ref_keys)
             max_len == IF la > lb THEN la ELSE lb
             score == IF la > 0 /\ lb > 0
                      THEN base + (7560 * Cardinality(a.top_ref_keys \cap b.top_ref_keys))
                                  \div max_len
                      ELSE base
         IN IF score < 25200 THEN score ELSE 25200

\* deque(maxlen=window_size).append
DequeAppend(win, e) ==
    IF Len(win) = LOOP_WINDOW_SIZE THEN Append(Tail(win), e) ELSE Append(win, e)

\* count: the entries of the window with the hash of the new entry
CountSameHash(win, e) == Cardinality({i \in 1..Len(win) : win[i].hash = e.hash})

\* fp_matches: with a fingerprint, the entries with that hash whose own
\* fingerprint is more than 0.8 similar; without one, count
fp_matches(win, e) ==
    IF e.fp # NoFingerprint
    THEN Cardinality({i \in 1..Len(win) :
            /\ win[i].hash = e.hash
            /\ win[i].fp # NoFingerprint
            /\ similarity(e.fp, win[i].fp) > 20160})
    ELSE CountSameHash(win, e)

NoWarning == [severity |-> "None", count |-> 0]

\* the three messages of record(), by count
SeverityOneEarlier(count) ==
    IF count >= LOOP_THRESHOLD + 3 THEN "CRITICAL"
    ELSE IF count >= LOOP_THRESHOLD + 1 THEN "STUCK"
    ELSE "WARNING"

SeverityOf(count) ==
    IF count >= LOOP_THRESHOLD + 4 THEN "CRITICAL"
    ELSE IF count >= LOOP_THRESHOLD + 2 THEN "STUCK"
    ELSE "WARNING"

\* ActionLoopDetector.record on the window after the append
detector_record(win, e) ==
    LET count == CountSameHash(win, e) IN
    IF count < LOOP_THRESHOLD THEN NoWarning
    ELSE IF fp_matches(win, e) < LOOP_THRESHOLD THEN NoWarning
    ELSE [severity |-> SeverityOf(count), count |-> count]

LoopIdle ==
    /\ loop_window = <<>>
    /\ loop_result = NoWarning

\* one call of record(action_name, params, fingerprint)
LoopRecord(e) ==
    /\ Cardinality({loop_window[i] : i \in 1..Len(loop_window)} \cup {e}) <= MaxDistinct
    /\ loop_window' = DequeAppend(loop_window, e)
    /\ loop_result' = detector_record(loop_window', e)
    /\ OutsideLoop

\* ActionLoopDetector.reset
LoopReset ==
    /\ loop_window # <<>>
    /\ loop_window' = <<>>
    /\ loop_result' = NoWarning
    /\ OutsideLoop

\* ------------------------------------------------------------------------
\* server.py: _execute_single_action after admission, and _do_snapshot, as
\* one session sees them (its lock serialises its requests)
\* ------------------------------------------------------------------------
\* requests a run of the model serves
MaxIssued == 5
Urls == {"a.com/1", "a.com/2", "b.com/1"}
PipeVerbs == {"click", "navigate", "snapshot"}
\* ref maps by name: "{}" the empty map, "mReq" one a client sends along with
\* a request, "mSnap" the one a snapshot produces; the clients of the model
\* send a map along with the snapshot verb only
RequestMaps(verb) == IF verb = "snapshot" THEN {"{}", "mReq"} ELSE {"{}"}

LOOP_SKIP ==
    {"snapshot", "screenshot", "done", "wait", "search_page", "find_elements",
     "extract", "get_downloads"}

\* urlparse(url).netloc
netloc(url) == IF url = "b.com/1" THEN "b.com" ELSE "a.com"

\* the keys of a ref map
RefKeys(m) ==
    CASE m = "{}" -> {}
      [] m = "mReq" -> {"q1"}
      [] OTHER -> {"k1", "k2"}

\* PageFingerprint.from_snapshot(url, refs, tab_count) with one tab open, None
\* when the refs are empty
from_snapshot(url, m) ==
    IF RefKeys(m) = {} THEN NoFingerprint
    ELSE [url_hash |-> url, interactive_count |-> Cardinality(RefKeys(m)),
          tab_count |-> 1, top_ref_keys |-> RefKeys(m)]

NoReply ==
    [op |-> "none", verb |-> "none", code |-> "none", page_changed |-> FALSE,
     loop_warning |-> "None"]

PipeIdle ==
    /\ cur_url = "a.com/1"
    /\ ref_map = "{}"
    /\ action_count = 0
    /\ issued = 0
    /\ reply = NoReply

\* lines 195-200: the detector is reset when the result says page_changed
\* and the netloc is another one
NeverReset(page_changed, old_url, new_url) == FALSE

ShouldReset(page_changed, old_url, new_url) ==
    page_changed /\ netloc(old_url) # netloc(new_url)

\* the request is turned away before the verb runs: get_page gave None, or
\* the rate limiter refused a verb that is not exempt
Refused(op, verb, code) ==
    /\ issued < MaxIssued
    /\ code = "RATE_LIMITED" => op = "action" /\ verb \notin EXEMPT_ACTIONS
    /\ issued' = issued + 1
    /\ reply' = [NoReply EXCEPT !.op = op, !.verb = verb, !.code = code]
    /\ UNCHANGED <<cur_url, ref_map, action_count, loop_window, loop_result>>
    /\ OutsidePipe

\* _execute_single_action from execute_action on: the verb ran with the
\* given outcome and left the page at new_url (a client of the model sends
\* each verb with the same params, so the verb stands for the action hash)
Executed(verb, rm, success, page_changed, new_url) ==
    LET ctx_map == IF rm # "{}" THEN rm ELSE ref_map
        \* action_snapshot stores the refs it produced in session_ctx
        ctx_after == IF verb = "snapshot" /\ success THEN "mSnap" ELSE ctx_map
        current_refs == IF ctx_after # "{}" THEN ctx_after ELSE ref_map
        e == [hash |-> verb, fp |-> from_snapshot(new_url, current_refs)]
        recorded == verb \notin LOOP_SKIP
        win == IF recorded THEN DequeAppend(loop_window, e) ELSE loop_window
        warning == IF recorded THEN detector_record(win, e) ELSE NoWarning
    IN /\ issued < MaxIssued
       /\ verb = "snapshot" => new_url = cur_url /\ ~page_changed
       /\ verb = "navigate" /\ success => page_changed
       /\ verb = "click" /\ success => (page_changed <=> new_url # cur_url)
       /\ ~success => ~page_changed
       /\ verb = "click" /\ ~success => new_url = cur_url
       /\ issued' = issued + 1
       /\ cur_url' = new_url
       /\ action_count' = action_count + 1
       /\ loop_window' = IF ShouldReset(page_changed, cur_url, new_url) THEN <<>> ELSE win
       /\ loop_result' = IF recorded THEN warning ELSE loop_result
       /\ ref_map' = IF verb = "snapshot" THEN ctx_after ELSE ref_map
       /\ reply' = [op |-> "action", verb |-> verb,
                    code |-> IF success THEN "OK" ELSE "FAIL",
                    page_changed |-> page_changed, loop_warning |-> warning.severity]
       /\ OutsidePipe

\* _do_snapshot: take_snapshot ran; its refs are stored when it succeeded
SnapshotOp(success) ==
    /\ issued < MaxIssued
    /\ issued' = issued + 1
    /\ ref_map' = IF success THEN "mSnap" ELSE ref_map
    /\ reply' = [NoReply EXCEPT !.op = "snapshot", !.code = IF success THEN "OK" ELSE "FAIL"]
    /\ UNCHANGED <<cur_url, action_count, loop_window, loop_result>>
    /\ OutsidePipe

\* ------------------------------------------------------------------------
\* server.py: the `actions` operation, a batch of steps under one lock hold
\* ------------------------------------------------------------------------
\* `if len(action_list) > 20`
BATCH_LIMIT == 20
\* list lengths of the batches a run of the model sends: the short ones, the
\* longest one admitted and the shortest one refused
MaxSteps == 3
BatchLengths == (0..MaxSteps) \cup {BATCH_LIMIT, BATCH_LIMIT + 1}
\* stop_on_error as sent with a list of n steps: the long lists come with the
\* default
StopFlagsOf(n) == IF n > MaxSteps THEN {TRUE} ELSE BOOLEAN
\* steps of one batch that fail, at most
MaxFailing == 2
\* the `action` field of a step; "none" is a step without that field
StepVerbs == {"click", "snapshot", "none"}
\* the refs a snapshot step can come back with
SnapMaps == {"mSnap", "mSnap2"}
\* the session the batch is addressed to, by the name of its client
BatchClient == "a"

IdleBatch == [pc |-> "idle", n |-> 0, stop |-> TRUE, i |-> 0, rm |-> "{}"]

NoOut == [success |-> FALSE, stopped_at |-> -1, error |-> "none"]

BatchIdle ==
    /\ batch = IdleBatch
    /\ results = <<>>
    /\ batch_out = NoOut
    /\ used = "none"
    /\ last_snap = "none"

Failing(res) == Cardinality({k \in 1..Len(res) : res[k] # "OK"})

\* line 262
TooLongFromLimit(n) == n >= BATCH_LIMIT

TooLong(n) == n > BATCH_LIMIT

\* lines 259-264: the list is checked before the lock is asked for
BatchBegin(n, stop, rm) ==
    /\ batch.pc = "idle"
    /\ results' = <<>>
    /\ IF n = 0
       THEN /\ batch' = [pc |-> "done", n |-> n, stop |-> stop, i |-> 0, rm |-> rm]
            /\ batch_out' = [NoOut EXCEPT !.error = "Missing or invalid 'actions' list"]
       ELSE IF TooLong(n)
       THEN /\ batch' = [pc |-> "done", n |-> n, stop |-> stop, i |-> 0, rm |-> rm]
            /\ batch_out' = [NoOut EXCEPT !.error = "Batch limited to 20 actions"]
       ELSE /\ batch' = [pc |-> "run", n |-> n, stop |-> stop, i |-> 0, rm |-> rm]
            /\ batch_out' = NoOut
    /\ UNCHANGED <<used, last_snap, dispatchVars, loopVars, ref_map, action_count>>
    /\ OutsideBatch

\* the map _execute_single_action stores after a snapshot verb: the
\* session_ctx entry, which action_snapshot replaced when it succeeded
StoredUntouched(stored, success, produced) == stored

StoredAfterSnapshot(stored, success, produced) == IF success THEN produced ELSE stored

\* one pass of the loop with the action counter raised before the rate
\* limiter is asked
StepEffectCountingRefusals(verb, code, produced) ==
    LET d == page_url[BatchClient]
        success == code = "OK"
        e == [hash |-> verb, fp |-> from_snapshot(d, ref_map)]
        recorded == verb \notin LOOP_SKIP
        win == IF recorded THEN DequeAppend(loop_window, e) ELSE loop_window
    IN CASE code = "NO_ACTION" ->
              /\ verb = "none"
              /\ used' = "none"
              /\ UNCHANGED <<last_snap, windows, landed, loopVars, ref_map, action_count>>
         [] code = "RATE_LIMITED" ->
              /\ verb \notin EXEMPT_ACTIONS \cup {"none"}
              /\ ~check(windows[d], d, clock)
              /\ windows' = [windows EXCEPT ![d] = _prune(@, clock)]
              /\ used' = "none"
              /\ action_count' = action_count + 1
              /\ UNCHANGED <<last_snap, landed, loopVars, ref_map>>
         [] OTHER ->
              /\ verb # "none"
              /\ verb \in EXEMPT_ACTIONS \/ check(windows[d], d, clock)
              /\ used' = ref_map
              /\ action_count' = action_count + 1
              /\ loop_window' = win
              /\ loop_result' = IF recorded THEN detector_record(win, e) ELSE loop_result
              /\ IF ShouldRecord(verb, success)
                 THEN /\ windows' = [windows EXCEPT ![d] = record(@, clock)]
                      /\ landed' = [landed EXCEPT ![d] = Append(@, clock)]
                 ELSE /\ UNCHANGED landed
                      /\ windows' = IF verb \in EXEMPT_ACTIONS THEN windows
                                    ELSE [windows EXCEPT ![d] = _prune(@, clock)]
              /\ ref_map' = IF verb = "snapshot"
                            THEN StoredAfterSnapshot(ref_map, success, produced)
                            ELSE ref_map
              /\ last_snap' = IF verb = "snapshot" /\ success THEN produced ELSE last_snap

\* what one pass of the loop of _do_batch does to the session: the step is
\* answered without a verb (code NO_ACTION), refused by the rate limiter, or
\* run by _execute_single_action, called without a request ref map
StepEffect(verb, code, produced) ==
    LET d == page_url[BatchClient]
        success == code = "OK"
        e == [hash |-> verb, fp |-> from_snapshot(d, ref_map)]
        recorded == verb \notin LOOP_SKIP
        win == IF recorded THEN DequeAppend(loop_window, e) ELSE loop_window
    IN CASE code = "NO_ACTION" ->
              /\ verb = "none"
              /\ used' = "none"
              /\ UNCHANGED <<last_snap, windows, landed, loopVars, ref_map, action_count>>
         [] code = "RATE_LIMITED" ->
              /\ verb \notin EXEMPT_ACTIONS \cup {"none"}
              /\ ~check(windows[d], d, clock)
              /\ windows' = [windows EXCEPT ![d] = _prune(@, clock)]
              /\ used' = "none"
              /\ UNCHANGED <<last_snap, landed, loopVars, ref_map, action_count>>
         [] OTHER ->
              /\ verb # "none"
              /\ verb \in EXEMPT_ACTIONS \/ check(windows[d], d, clock)
              /\ used' = ref_map
              /\ action_count' = action_count + 1
              /\ loop_window' = win
              /\ loop_result' = IF recorded THEN detector_record(win, e) ELSE loop_result
              /\ IF ShouldRecord(verb, success)
                 THEN /\ windows' = [windows EXCEPT ![d] = record(@, clock)]
                      /\ landed' = [landed EXCEPT ![d] = Append(@, clock)]
                 ELSE /\ UNCHANGED landed
                      /\ windows' = IF verb \in EXEMPT_ACTIONS THEN windows
                                    ELSE [windows EXCEPT ![d] = _prune(@, clock)]
              /\ ref_map' = IF verb = "snapshot"
                            THEN StoredAfterSnapshot(ref_map, success, produced)
                            ELSE ref_map
              /\ last_snap' = IF verb = "snapshot" /\ success THEN produced ELSE last_snap

\* line 277: the loop is left after a step that did not succeed
NeverStopping(failed, stop) == FALSE

\* the loop left after any failed step, whatever the flag
StoppingWhateverFlag(failed, stop) == failed

Stopping(failed, stop) == failed /\ stop

\* lines 268-284: one pass of the loop; the pass that ends it builds the
\* response
BatchStep(verb, code, produced) ==
    LET failed == code # "OK"
        stopping == Stopping(failed, batch.stop)
        ends == stopping \/ batch.i + 1 = batch.n
    IN /\ batch.pc = "run"
       /\ batch.i < batch.n
       /\ failed => Failing(results) < MaxFailing
       /\ StepEffect(verb, code, produced)
       /\ results' = Append(results, code)
       /\ batch' = [batch EXCEPT !.i = @ + 1, !.pc = IF ends THEN "done" ELSE "run"]
       /\ batch_out' = IF ~ends THEN batch_out
                 ELSE IF stopping
                 THEN [success |-> FALSE, stopped_at |-> batch.i, error |-> code]
                 ELSE [success |-> TRUE, stopped_at |-> -1, error |-> "none"]
       /\ UNCHANGED <<page_url, act, clock, last>>
       /\ OutsideBatch

\* a snapshot request served before the batch arrives
SnapshotBefore(success) ==
    /\ batch.pc = "idle"
    /\ issued = 0
    /\ SnapshotOp(success)

\* ------------------------------------------------------------------------
\* server.py: handle_http and _truncate_result, the size of what is sent
\* ------------------------------------------------------------------------
\* Config.MAX_SNAPSHOT_BYTES
MAX_SNAPSHOT_BYTES == 100000
\* the margin _truncate_result leaves for its metadata
TRUNCATE_MARGIN == 200
\* len() of the fallback envelope's message
MESSAGE_LEN == 108

\* A dict is the list of its fields in insertion order. A field is the tuple
\* <<key, kind, len, items>>: its key and, of its value, the type and the size: a string of
\* `len` characters that json.dumps writes as they are, a bool (len 1 for
\* true, 0 for false), an int (len is the number), a list of key names, or a
\* nested value whose serialization is `len` characters long.
Field(key, kind, len) == <<key, kind, len, <<>>>>

ListField(key, items) == <<key, "list", 0, items>>

KeyLen ==
    [success |-> 7, error |-> 5, code |-> 4, tree |-> 4, text |-> 4, refs |-> 4,
     truncated |-> 9, truncated_fields |-> 16, original_bytes |-> 14, message |-> 7]

RECURSIVE Digits(_)
Digits(n) == IF n < 10 THEN 1 ELSE 1 + Digits(n \div 10)

RECURSIVE QuotedKeys(_)
\* the key names of a list, each in quotes
QuotedKeys(items) ==
    IF items = <<>> THEN 0 ELSE KeyLen[Head(items)] + 2 + QuotedKeys(Tail(items))

\* len(json.dumps(value))
ValueLen(f) ==
    CASE f[2] = "str" -> f[3] + 2
      [] f[2] = "bool" -> IF f[3] = 1 THEN 4 ELSE 5
      [] f[2] = "int" -> Digits(f[3])
      [] f[2] = "list" ->
            IF f[4] = <<>> THEN 2
            ELSE 2 + QuotedKeys(f[4]) + 2 * (Len(f[4]) - 1)
      [] OTHER -> f[3]

RECURSIVE Entries(_)
\* the `"key": value` entries of a dict
Entries(d) ==
    IF d = <<>> THEN 0
    ELSE KeyLen[Head(d)[1]] + 2 + 2 + ValueLen(Head(d)) + Entries(Tail(d))

\* len(json.dumps(d)): braces, the entries, ", " between them
Serialized(d) == IF d = <<>> THEN 2 ELSE 2 + Entries(d) + 2 * (Len(d) - 1)

HasKey(d, key) == \E i \in 1..Len(d) : d[i][1] = key

Pos(d, key) == CHOOSE i \in 1..Len(d) : d[i][1] = key

Get(d, key) == d[Pos(d, key)]

\* d[key] = f for a key the dict holds
Put(d, f) == [d EXCEPT ![Pos(d, f[1])] = f]

RECURSIVE SortedBySizeDesc(_)
\* list.sort(key=size, reverse=True): stable, largest first
SortedBySizeDesc(seq) ==
    IF seq = <<>> THEN <<>>
    ELSE LET rest == SortedBySizeDesc(Tail(seq))
             h == Head(seq)
             k == Cardinality({i \in 1..Len(rest) : rest[i][3] > h[3]})
         IN SubSeq(rest, 1, k) \o <<h>> \o SubSeq(rest, k + 1, Len(rest))

\* lines 490-494: the string fields other than success and error
IsCandidate(f) == f[2] = "str" /\ f[1] \notin {"success", "error"}

trunc_candidates(d) == SortedBySizeDesc(SelectSeq(d, IsCandidate))

\* out[key] after line 507: the prefix and the marker
\* "... [truncated from N chars]"
Cut(f, overshoot) ==
    LET kept == IF f[3] - overshoot - TRUNCATE_MARGIN > 0
                THEN f[3] - overshoot - TRUNCATE_MARGIN ELSE 0
    IN [f EXCEPT ![3] = kept + 20 + Digits(f[3]) + 7]

RECURSIVE TruncateLoop(_, _, _)
\* lines 498-508: [out, truncated_fields] once the loop is through
TruncateLoop(d, cands, cut) ==
    IF cands = <<>> \/ Serialized(d) <= MAX_SNAPSHOT_BYTES
    THEN [out |-> d, truncated_fields |-> cut]
    ELSE LET key == Head(cands)[1]
             overshoot == Serialized(d) - MAX_SNAPSHOT_BYTES
         IN TruncateLoop(Put(d, Cut(Get(d, key), overshoot)), Tail(cands),
                         Append(cut, key))

_truncate_result(d, original_bytes) ==
    LET r == TruncateLoop(d, trunc_candidates(d), <<>>) IN
    r.out \o << Field("truncated", "bool", 1),
                ListField("truncated_fields", r.truncated_fields),
                Field("original_bytes", "int", original_bytes) >>

\* lines 544-551: the minimal envelope
Fallback(d) ==
    << IF HasKey(d, "success") THEN Get(d, "success") ELSE Field("success", "bool", 0),
       IF HasKey(d, "error") THEN Get(d, "error") ELSE Field("error", "str", 0),
       Field("truncated", "bool", 1),
       Field("original_bytes", "int", Serialized(d)),
       Field("message", "str", MESSAGE_LEN) >>

\* lines 537-553: what handle_http sends for the result d
Envelope(d) ==
    IF Serialized(d) <= MAX_SNAPSHOT_BYTES THEN d
    ELSE LET r == _truncate_result(d, Serialized(d)) IN
         IF Serialized(r) <= MAX_SNAPSHOT_BYTES THEN r ELSE Fallback(r)

\* the results the handlers of the model return: sizes of the error text,
\* of two string fields and of a nested value, below, near and above the cap
Oversize == 150000
ErrorSizes == {-1, 40, Oversize}
CodeSizes == {-1, 12}
TreeSizes == {-1, 500, MAX_SNAPSHOT_BYTES - 100, Oversize}
TextSizes == {-1, 60000}
RefsSizes == {-1, 3000, Oversize}

Optional(key, kind, len) == IF len < 0 THEN <<>> ELSE <<Field(key, kind, len)>>

ResultOf(success, error, code, tree, text, refs) ==
    <<Field("success", "bool", IF success THEN 1 ELSE 0)>>
      \o Optional("error", "str", error) \o Optional("code", "str", code)
      \o Optional("tree", "str", tree) \o Optional("text", "str", text)
      \o Optional("refs", "raw", refs)

EnvelopeIdle ==
    /\ handled = <<>>
    /\ sent = <<>>

\* handle_http from the return of handle_request_inner to web.json_response
Respond(d) ==
    /\ handled' = d
    /\ sent' = Envelope(d)
    /\ OutsideEnvelope

\* ------------------------------------------------------------------------
\* agent_fsm.py: AgentFSM
\* ------------------------------------------------------------------------
AgentStateName ==
    {"IDLE", "LAUNCHING", "OBSERVING", "PLANNING", "ACTING", "EVALUATING",
     "ESCALATING", "RECOVERING", "DONE", "ERROR", "TEARING_DOWN"}

VALID_TRANSITIONS ==
    [IDLE |-> {"LAUNCHING"},
     LAUNCHING |-> {"OBSERVING", "ERROR"},
     OBSERVING |-> {"PLANNING", "ERROR"},
     PLANNING |-> {"ACTING", "DONE", "ERROR"},
     ACTING |-> {"EVALUATING", "ERROR"},
     EVALUATING |-> {"OBSERVING", "ESCALATING", "DONE", "ERROR"},
     ESCALATING |-> {"LAUNCHING", "ERROR"},
     RECOVERING |-> {"OBSERVING", "ESCALATING", "ERROR"},
     DONE |-> {"TEARING_DOWN", "IDLE"},
     ERROR |-> {"RECOVERING", "TEARING_DOWN", "IDLE"},
     TEARING_DOWN |-> {"IDLE"}]

\* the targets of to_error, to_recovering, to_tearing_down
ForcedTargets == {"ERROR", "RECOVERING", "TEARING_DOWN"}

\* Config.FSM_DEADLINES.get(name), -1 for None
FSM_DEADLINES(name) ==
    CASE name = "LAUNCHING" -> 60000
      [] name \in {"OBSERVING", "ACTING"} -> 30000
      [] name = "RECOVERING" -> 15000
      [] name = "TEARING_DOWN" -> 10000
      [] OTHER -> -1

\* bump_epoch calls of one run
MaxEpoch == 2

AnyTransitionValid(from_state, to_state) == TRUE

is_valid_transition(from_state, to_state) == to_state \in VALID_TRANSITIONS[from_state]

\* readings of the clock over one run
MaxFsmNow == 2

\* _set_state: the state is entered at the present reading of the clock
_set_state(name, epoch) ==
    [name |-> name, since_ms |-> fsm_now, deadline_ms |-> FSM_DEADLINES(name), epoch |-> epoch]

NoCall == [call |-> "none", from |-> "none", to |-> "none", raised |-> "none",
           notified |-> FALSE]

FsmIdle ==
    /\ fsm_now = 0
    /\ fsm = _set_state("IDLE", 0)
    /\ fsm_event = NoCall

\* _transition: the state after the call and what it raised
transition_result(prev, to) ==
    IF ~is_valid_transition(prev.name, to)
    THEN [state |-> prev, raised |-> "INVALID_TRANSITION"]
    ELSE [state |-> _set_state(to, prev.epoch), raised |-> "none"]

\* a forced transition that consulted the table after all
ForcedThroughTable(prev, to) == transition_result(prev, to)

\* _force_transition
force_result(prev, to) == [state |-> _set_state(to, prev.epoch), raised |-> "none"]

\* a call of _transition(to); the listeners are told of a change and what
\* they raise is swallowed
_transition(to) ==
    LET r == transition_result(fsm, to) IN
    /\ fsm' = r.state
    /\ fsm_event' = [call |-> "_transition", from |-> fsm.name, to |-> to,
                     raised |-> r.raised, notified |-> r.raised = "none"]
    /\ fsm_now' = fsm_now
    /\ OutsideFsm

_force_transition(to) ==
    LET r == force_result(fsm, to) IN
    /\ fsm' = r.state
    /\ fsm_event' = [call |-> "_force_transition", from |-> fsm.name, to |-> to,
                     raised |-> r.raised, notified |-> r.raised = "none"]
    /\ fsm_now' = fsm_now
    /\ OutsideFsm

\* a bump that entered the state anew
BumpEpochThroughSetState ==
    /\ fsm.epoch < MaxEpoch
    /\ fsm' = _set_state(fsm.name, fsm.epoch + 1)
    /\ fsm_event' = [call |-> "bump_epoch", from |-> fsm.name, to |-> fsm.name,
                     raised |-> "none", notified |-> TRUE]
    /\ fsm_now' = fsm_now
    /\ OutsideFsm

bump_epoch ==
    /\ fsm.epoch < MaxEpoch
    /\ fsm' = [fsm EXCEPT !.epoch = @ + 1]
    /\ fsm_event' = [call |-> "bump_epoch", from |-> fsm.name, to |-> fsm.name,
                     raised |-> "none", notified |-> TRUE]
    /\ fsm_now' = fsm_now
    /\ OutsideFsm

\* time passes between two calls on the FSM
FsmTick ==
    /\ fsm_now < MaxFsmNow
    /\ fsm_now' = fsm_now + 1
    /\ UNCHANGED <<fsm, fsm_event>>
    /\ OutsideFsm

\* ------------------------------------------------------------------------
\* browser_engine.py: switch_page, new_page, close_page on a live session
\* ------------------------------------------------------------------------
\* pages one context creates over a run
MaxCreated == 4
TabUrls == {"about:blank", "a.com"}

NoTabCall == [call |-> "none", index |-> 0, open_before |-> 0, returned |-> "none"]

\* the session as launch leaves it: one page, which is the active one
TabsIdle ==
    /\ pages = <<[id |-> 1, url |-> "a.com"]>>
    /\ active = 1
    /\ created = 1
    /\ tab_event = NoTabCall

\* `0 <= index < len(pages)`, 0-based
InRange(index, list) == 0 <= index /\ index < Len(list)

\* the list without its entry at the 0-based index
WithoutIndex(list, index) == SubSeq(list, 1, index) \o SubSeq(list, index + 2, Len(list))

switch_page(index) ==
    /\ active' = IF InRange(index, pages) THEN pages[index + 1].id ELSE active
    /\ tab_event' = [call |-> "switch_page", index |-> index, open_before |-> Len(pages),
                     returned |-> IF InRange(index, pages) THEN "page" ELSE "None"]
    /\ UNCHANGED <<pages, created>>
    /\ OutsideTabs

\* context.new_page() gives a blank page, which becomes the active one before
\* goto is awaited; goto raising leaves the page open where it is
new_page(url, goto_ok) ==
    /\ created < MaxCreated
    /\ url = "about:blank" => goto_ok
    /\ created' = created + 1
    /\ pages' = Append(pages, [id |-> created + 1,
                               url |-> IF goto_ok THEN url ELSE "about:blank"])
    /\ active' = created + 1
    /\ tab_event' = [call |-> "new_page", index |-> Len(pages), open_before |-> Len(pages),
                     returned |-> IF goto_ok THEN "page" ELSE "raised"]
    /\ OutsideTabs

\* lines 951-959 of close_page with an index in range: the pages and the
\* active page afterwards
CloseKeepsActive(list, cur, index, fresh) ==
    [pages |-> WithoutIndex(list, index), active |-> cur]

ClosePageResult(list, cur, index, fresh) ==
    LET remaining == WithoutIndex(list, index) IN
    IF remaining # <<>>
    THEN [pages |-> remaining, active |-> remaining[Len(remaining)].id]
    ELSE [pages |-> <<[id |-> fresh, url |-> "about:blank"]>>, active |-> fresh]

close_page(index) ==
    LET r == ClosePageResult(pages, active, index, created + 1) IN
    /\ (InRange(index, pages) /\ Len(pages) = 1) => created < MaxCreated
    /\ IF InRange(index, pages)
       THEN /\ pages' = r.pages
            /\ active' = r.active
            /\ created' = IF Len(pages) = 1 THEN created + 1 ELSE created
       ELSE UNCHANGED <<pages, active, created>>
    /\ tab_event' = [call |-> "close_page", index |-> index, open_before |-> Len(pages),
                     returned |-> IF InRange(index, pages) THEN "True" ELSE "False"]
    /\ OutsideTabs

\* ------------------------------------------------------------------------
\* snapshot.py: process_aria_text and take_snapshot, the numbering of refs
\* ------------------------------------------------------------------------
\* lines of an aria snapshot, and cursor-interactive elements found
MaxLines == 2
MaxCursor == 2

\* A line of the aria snapshot by what the parser makes of it: a role of the
\* interactive or content set with or without a name, an unnamed structural
\* role, or a `- text:` line.
AriaLines ==
    [cls : {"interactive", "content"}, name : {"none", "Save"}]
      \cup {[cls |-> "structural", name |-> "none"], [cls |-> "text", name |-> "Save"]}

RECURSIVE SeqsUpTo(_, _)
SeqsUpTo(S, n) ==
    IF n = 0 THEN {<<>>}
    ELSE LET shorter == SeqsUpTo(S, n - 1) IN
         shorter \cup {Append(s, x) : s \in {q \in shorter : Len(q) = n - 1}, x \in S}

\* the texts of the elements _find_cursor_interactive returns: its script
\* keeps one element per text
CursorTexts == {"SAVE", "Menu"}
CursorLists ==
    {s \in SeqsUpTo(CursorTexts, MaxCursor) : \A i, j \in 1..Len(s) : s[i] = s[j] => i = j}

\* str.lower()
Lower(s) ==
    CASE s = "SAVE" -> "save"
      [] s = "Save" -> "save"
      [] s = "Menu" -> "menu"
      [] OTHER -> s

\* an assignment that is lost
DictPutDropped(d, key, role, name) == d

\* refs[key] = value on a dict held as the set of its entries
DictPut(d, key, role, name) ==
    {e \in d : e.key # key} \cup {[key |-> key, role |-> role, name |-> name]}

\* what process_aria_text has built so far: the lines of the tree, each with
\* the number of the ref written on it (0 for none), the refs, the counter
EmptyParse == [tree |-> <<>>, refs |-> {}, counter |-> 0]

\* lines 174-238 for one line
ProcessLine(acc, line, compact) ==
    LET should_ref == line.cls = "interactive" \/ (line.cls = "content" /\ line.name # "none")
        ref == acc.counter + 1
    IN CASE line.cls = "text" ->
              IF compact THEN acc
              ELSE [acc EXCEPT !.tree = Append(@, [text |-> line.name, marker |-> 0])]
         [] line.cls = "structural" /\ line.name = "none" /\ compact -> acc
         [] should_ref ->
              [tree |-> Append(acc.tree, [text |-> line.name, marker |-> ref]),
               refs |-> DictPut(acc.refs, ref, line.cls, line.name),
               counter |-> ref]
         [] OTHER -> [acc EXCEPT !.tree = Append(@, [text |-> line.name, marker |-> 0])]

RECURSIVE process_aria_text(_, _, _)
process_aria_text(raw, compact, acc) ==
    IF raw = <<>> THEN acc
    ELSE process_aria_text(Tail(raw), compact, ProcessLine(acc, Head(raw), compact))

\* the counter the cursor-interactive refs start from
CounterRestarted(counter) == 0

CounterCarriedOn(counter) == counter

RECURSIVE AddCursor(_, _, _)
\* lines 304-319: existing_names is computed once, before the loop
AddCursor(acc, els, existing_names) ==
    IF els = <<>> THEN acc
    ELSE LET text == Head(els)
             ref == acc.counter + 1
         IN IF Lower(text) \in existing_names
            THEN AddCursor(acc, Tail(els), existing_names)
            ELSE AddCursor([tree |-> Append(acc.tree, [text |-> text, marker |-> ref]),
                            refs |-> DictPut(acc.refs, ref, "clickable", text),
                            counter |-> ref],
                           Tail(els), existing_names)

NoSnapshot == [success |-> FALSE, tree |-> <<>>, refs |-> {}, assigned |-> 0]

\* take_snapshot: a failed or empty aria snapshot fails, else the tree under
\* its header, the refs, and how many refs were handed out
take_snapshot_result(raw, raised, compact, cursor_interactive, els) ==
    IF raised \/ raw = <<>> THEN NoSnapshot
    ELSE LET aria == process_aria_text(raw, compact, EmptyParse)
             names == {Lower(e.name) : e \in {x \in aria.refs : x.name # "none"}}
             start == [aria EXCEPT !.counter = CounterCarriedOn(@)]
             all == IF cursor_interactive THEN AddCursor(start, els, names) ELSE aria
         IN [success |-> TRUE,
             tree |-> <<[text |-> "header", marker |-> 0]>> \o all.tree,
             refs |-> all.refs,
             assigned |-> Len(SelectSeq(all.tree, LAMBDA l : l.marker # 0))]

SnapIdle ==
    /\ snap = NoSnapshot
    /\ session_refs = {}

\* _do_snapshot: the refs are stored when the snapshot succeeded
do_snapshot(raw, raised, compact, cursor_interactive, els) ==
    LET result == take_snapshot_result(raw, raised, compact, cursor_interactive, els) IN
    /\ snap' = result
    /\ session_refs' = IF result.success THEN result.refs ELSE session_refs
    /\ OutsideSnap

\* ------------------------------------------------------------------------
\* config.py and session.py: profile names and profile directories
\* ------------------------------------------------------------------------
\* characters of a profile name, and profile directories on the disk
MaxName == 2
MaxProfiles == 1

\* A name is the sequence of its characters: a letter, a dot, a slash and a
\* line feed stand for the characters inside and outside [a-zA-Z0-9._-].
NameChars == {"a", ".", "/", "LF"}
NameClass == {"a", "."}
ProfileNames == SeqsUpTo(NameChars, MaxName)

AllIn(name, S) == \A i \in 1..Len(name) : name[i] \in S

\* PROFILE_NAME_RE.match(name): one or more characters of the class up to
\* `$`, which matches at the end of the string and before a line feed that
\* ends it
PROFILE_NAME_RE(name) ==
    \/ Len(name) >= 1 /\ AllIn(name, NameClass)
    \/ /\ Len(name) >= 2
       /\ name[Len(name)] = "LF"
       /\ AllIn(SubSeq(name, 1, Len(name) - 1), NameClass)

HasDotDot(name) == \E i \in 1..(Len(name) - 1) : name[i] = "." /\ name[i + 1] = "."

\* the error validate_profile_name returns, "none" for None
validate_profile_name(name) ==
    CASE name = <<>> -> "empty"
      [] ~PROFILE_NAME_RE(name) -> "characters"
      [] HasDotDot(name) \/ name[1] = "/" -> "traversal"
      [] OTHER -> "none"

\* A path is the sequence of its components below the profile root; the
\* root is the empty path.
ProfileRoot == <<>>
META == <<"meta.json">>
CREDENTIALS == <<"credentials.json">>

IsUnder(path, dir) == Len(path) >= Len(dir) /\ SubSeq(path, 1, Len(dir)) = dir

\* (base_dir / name).resolve() for a name that passed validation: it has no
\* slash and no `..`, and the component `.` is the directory itself. No
\* profile directory is a symbolic link.
Resolved(name) == IF name = <<".">> THEN ProfileRoot ELSE <<name>>

\* the path that stands for None
NoPath == <<<<"none">>>>

\* safe_profile_path
safe_profile_path(name) ==
    IF validate_profile_name(name) # "none" THEN NoPath
    ELSE IF ~IsUnder(Resolved(name), ProfileRoot) THEN NoPath ELSE Resolved(name)

\* _safe_dir: [path, err]
_safe_dir(name) ==
    IF validate_profile_name(name) # "none"
    THEN [path |-> NoPath, err |-> validate_profile_name(name)]
    ELSE IF safe_profile_path(name) = NoPath
         THEN [path |-> NoPath, err |-> "path"]
         ELSE [path |-> safe_profile_path(name), err |-> "none"]

\* Path.mkdir(parents=True): the directory and those above it
WithDir(paths, dir) == paths \cup {SubSeq(dir, 1, k) : k \in 0..Len(dir)}

\* shutil.rmtree
WithoutTree(paths, dir) == {q \in paths : ~IsUnder(q, dir)}

ProfileDirs(paths) == {q \in paths : Len(q) = 1 /\ q \notin {<<META>>, <<CREDENTIALS>>}}

\* the disk has room for the directory
HasRoom(dir) == dir \in disk \/ Cardinality(ProfileDirs(disk)) < MaxProfiles

NoProfileCall == [op |-> "none", name |-> <<>>, err |-> "none", result |-> "none", before |-> {}]

ProfileIdle ==
    /\ disk = {ProfileRoot}
    /\ touched = {}
    /\ profile_event = NoProfileCall

\* every operation begins with _safe_dir and returns on its error
Rejected(op, name) ==
    /\ _safe_dir(name).err # "none"
    /\ disk' = disk
    /\ touched' = {}
    /\ profile_event' = [op |-> op, name |-> name, err |-> _safe_dir(name).err,
                          result |-> "refused", before |-> disk]
    /\ OutsideProfile

ProfileDone(op, name, result, reached) ==
    /\ touched' = reached
    /\ profile_event' = [op |-> op, name |-> name, err |-> "none", result |-> result,
                          before |-> disk]
    /\ OutsideProfile

create_profile(name) ==
    \/ Rejected("create", name)
    \/ /\ _safe_dir(name).err = "none"
       /\ LET pdir == _safe_dir(name).path IN
          IF pdir \in disk
          THEN /\ disk' = disk
               /\ ProfileDone("create", name, "exists", {pdir})
          ELSE /\ HasRoom(pdir)
               /\ disk' = WithDir(disk, pdir) \cup {Append(pdir, META)}
               /\ ProfileDone("create", name, "ok", {pdir, Append(pdir, META)})

load_profile(name) ==
    \/ Rejected("load", name)
    \/ /\ _safe_dir(name).err = "none"
       /\ LET pdir == _safe_dir(name).path IN
          /\ disk' = disk
          /\ IF Append(pdir, META) \in disk
             THEN ProfileDone("load", name, "meta", {Append(pdir, META)})
             ELSE ProfileDone("load", name, "missing", {Append(pdir, META)})

delete_profile(name) ==
    \/ Rejected("delete", name)
    \/ /\ _safe_dir(name).err = "none"
       /\ LET pdir == _safe_dir(name).path IN
          IF pdir \notin disk
          THEN /\ disk' = disk
               /\ ProfileDone("delete", name, "not found", {pdir})
          ELSE /\ disk' = WithoutTree(disk, pdir)
               /\ ProfileDone("delete", name, "ok", {q \in disk : IsUnder(q, pdir)})

save_credentials(name) ==
    \/ Rejected("save", name)
    \/ /\ _safe_dir(name).err = "none"
       /\ LET pdir == _safe_dir(name).path IN
          /\ HasRoom(pdir)
          /\ disk' = WithDir(disk, pdir) \cup {Append(pdir, CREDENTIALS)}
          /\ ProfileDone("save", name, "ok", {pdir, Append(pdir, CREDENTIALS)})

load_credentials(name) ==
    \/ Rejected("credentials", name)
    \/ /\ _safe_dir(name).err = "none"
       /\ LET pdir == _safe_dir(name).path IN
          /\ disk' = disk
          /\ IF Append(pdir, CREDENTIALS) \in disk
             THEN ProfileDone("credentials", name, "read", {Append(pdir, CREDENTIALS)})
             ELSE ProfileDone("credentials", name, "empty", {Append(pdir, CREDENTIALS)})

\* ------------------------------------------------------------------------
\* session.py: resolve_credential
\* ------------------------------------------------------------------------
\* pieces of a value
MaxPieces == 3

\* A value is the sequence of its pieces: <<"tag", key>> for the text
\* `<secret>key</secret>` and <<"text", s>> for a run of other text.
CredKeys == {"user", "pass"}
Pieces == {<<"tag", "user">>, <<"tag", "pass">>, <<"tag", "other">>,
           <<"text", "x">>, <<"text", "user">>}
CredValues == SeqsUpTo(Pieces, MaxPieces)

\* credentials.json of the profile, or no credentials at all
Stored == [user |-> "U", pass |-> "P"]
CredStores == {"none", "stored"}

IsTag(piece) == piece[1] = "tag"

\* _SECRET_RE.search(value): the position of the first tag, 0 for no match
FirstTag(value) ==
    IF \E i \in 1..Len(value) : IsTag(value[i])
    THEN CHOOSE i \in 1..Len(value) : IsTag(value[i]) /\ \A j \in 1..(i - 1) : ~IsTag(value[j])
    ELSE 0

RECURSIVE SubAll(_, _)
\* _SECRET_RE.sub(repl, value): every tag becomes repl
SubAll(value, repl) ==
    IF value = <<>> THEN <<>>
    ELSE <<IF IsTag(Head(value)) THEN <<"text", repl>> ELSE Head(value)>>
           \o SubAll(Tail(value), repl)

\* `value in creds`: the whole value is the name of a key
IsKeyName(value) == Len(value) = 1 /\ ~IsTag(value[1]) /\ value[1][2] \in CredKeys

resolve_credential(store, value) ==
    IF store = "none" THEN value
    ELSE IF FirstTag(value) # 0
         THEN LET key == value[FirstTag(value)][2] IN
              IF key \in CredKeys THEN SubAll(value, Stored[key]) ELSE value
         ELSE IF IsKeyName(value) THEN <<<<"text", Stored[value[1][2]]>>>> ELSE value

CredIdle ==
    /\ cred_call = <<"none", <<>>>>
    /\ cred_out = <<>>

Resolve(store, value) ==
    /\ cred_call' = <<store, value>>
    /\ cred_out' = resolve_credential(store, value)
    /\ OutsideCred

\* ------------------------------------------------------------------------
\* detection.py: is_blocked
\* ------------------------------------------------------------------------
\* phrases in a page title
MaxPhrases == 2

\* A title, a url and the start of the body text are each the set of the
\* phrases they contain, as the page writes them.
TitlePhrases ==
    {"Just a moment", "Attention Required", "DataDome", "Access Denied", "403 Forbidden",
     "Blocked", "Welcome"}
UrlPhrases == {"px-captcha"}
ContentPhrases == {"CAPTCHA", "Verify you are human"}

\* str.lower() of a phrase
LowerPhrase(s) ==
    CASE s = "Just a moment" -> "just a moment"
      [] s = "Attention Required" -> "attention required"
      [] s = "DataDome" -> "datadome"
      [] s = "Access Denied" -> "access denied"
      [] s = "403 Forbidden" -> "403 forbidden"
      [] s = "Blocked" -> "blocked"
      [] s = "Welcome" -> "welcome"
      [] s = "CAPTCHA" -> "captcha"
      [] s = "Verify you are human" -> "verify you are human"
      [] OTHER -> s

Lowered(phrases) == {LowerPhrase(s) : s \in phrases}

Titles == {T \in SUBSET TitlePhrases : Cardinality(T) <= MaxPhrases}

\* where the browser call of is_blocked raised, if any
BlockFailures == {"none", "title", "evaluate"}

\* is_blocked: the protection string, "None" for None
is_blocked(page_title, url, content, failure) ==
    IF failure = "title" THEN "None"
    ELSE LET title == Lowered(page_title)
             url_lower == Lowered(url)
         IN CASE "just a moment" \in title \/ "attention required" \in title -> "cloudflare"
              [] "datadome" \in title -> "datadome"
              [] "access denied" \in title \/ "px-captcha" \in url_lower -> "perimeterx"
              [] title \cap {"access denied", "403 forbidden", "blocked"} # {} -> "generic"
              [] failure = "evaluate" -> "None"
              [] Lowered(content) \cap {"captcha", "verify you are human"} # {} -> "captcha"
              [] OTHER -> "None"

BlockIdle ==
    /\ blocked_call = <<{}, {}, {}, "none">>
    /\ blocked_out = "None"

IsBlocked(page_title, url, content, failure) ==
    /\ blocked_call' = <<page_title, url, content, failure>>
    /\ blocked_out' = is_blocked(page_title, url, content, failure)
    /\ OutsideBlock

\* ------------------------------------------------------------------------
\* The diff of successive snapshots of a session
\* ------------------------------------------------------------------------
\* lines of a page that is diffed
MaxDiffLines == 2

DiffHosts == {"a.com", "b.org"}
DiffLines ==
    {[cls |-> "interactive", name |-> "Save"], [cls |-> "interactive", name |-> "Home"],
     [cls |-> "text", name |-> "Save"]}
DiffPages == SeqsUpTo(DiffLines, MaxDiffLines)

\* the 0-based nth of an entry among the entries of its role and name, -1
\* when it is their only one
NthOf(refs, e) ==
    IF Cardinality({x \in refs : x.role = e.role /\ x.name = e.name}) = 1 THEN -1
    ELSE Cardinality({x \in refs : x.role = e.role /\ x.name = e.name /\ x.key < e.key})

\* the (role, name, nth?) key of an entry
DiffKey(refs, e) == <<e.role, e.name, NthOf(refs, e)>>

DiffKeys(refs) == {DiffKey(refs, e) : e \in refs}

\* new: the refs whose key is not in the previous map
NewRefs(prev, refs) == {e \in refs : DiffKey(refs, e) \notin DiffKeys(prev)}

\* removed: the keys present previously and absent now
RemovedKeys(prev, refs) == DiffKeys(prev) \ DiffKeys(refs)

NoDiff ==
    [success |-> FALSE, diffed |-> FALSE, other_host |-> FALSE, new_element_count |-> 0,
     removed_element_count |-> 0, starred |-> {}, tree |-> <<>>, refs |-> {}]

\* a snapshot result with, when the session has a previous snapshot, the
\* counts of the diff and the lines of the tree that carry the `*` prefix
snapshot_diff(prev, result, other_host) ==
    IF ~result.success THEN NoDiff
    ELSE [success |-> TRUE,
          diffed |-> prev[1],
          other_host |-> prev[1] /\ other_host,
          new_element_count |-> IF prev[1] THEN Cardinality(NewRefs(prev[2], result.refs)) ELSE 0,
          removed_element_count |->
              IF prev[1] THEN Cardinality(RemovedKeys(prev[2], result.refs)) ELSE 0,
          starred |-> IF prev[1]
                      THEN {i \in 1..Len(result.tree) :
                              \E e \in NewRefs(prev[2], result.refs) :
                                  e.key = result.tree[i].marker}
                      ELSE {},
          tree |-> result.tree,
          refs |-> result.refs]

DiffIdle ==
    /\ prev_refs = <<FALSE, {}, "a.com">>
    /\ at_host = "a.com"
    /\ diff_out = NoDiff
    /\ diff_pages = <<<<>>, <<>>>>

\* a navigate of the session that lands on host
DiffNavigate(host) ==
    /\ at_host' = host
    /\ UNCHANGED <<prev_refs, diff_out, diff_pages>>
    /\ OutsideDiff

\* a snapshot of the session: the result is diffed against the cache and,
\* when it succeeded, becomes the cache
DiffSnapshot(raw, raised) ==
    LET result == take_snapshot_result(raw, raised, TRUE, FALSE, <<>>) IN
    /\ diff_out' = snapshot_diff(prev_refs, result, at_host # prev_refs[3])
    /\ prev_refs' = IF result.success THEN <<TRUE, result.refs, at_host>> ELSE prev_refs
    /\ diff_pages' = IF result.success THEN <<diff_pages[2], raw>> ELSE diff_pages
    /\ UNCHANGED at_host
    /\ OutsideDiff

\* ------------------------------------------------------------------------
\* errors.py: classify_error
\* ------------------------------------------------------------------------
\* words of an error message
MaxWords == 3

\* A message and a pattern are each the sequence of their words; a phrase
\* that no other pattern shares a word with is one word.
_PATTERN_MAP ==
    << <<<<"TimeoutError">>, "TIMEOUT_ACTION">>,
       <<<<"not visible">>, "ELEMENT_NOT_VISIBLE">>,
       <<<<"detached">>, "ELEMENT_DETACHED">>,
       <<<<"Target closed">>, "TARGET_CLOSED">>,
       <<<<"net::ERR_">>, "NETWORK_ERROR">>,
       <<<<"frame", "was", "detached">>, "FRAME_DETACHED">>,
       <<<<"Execution context was destroyed">>, "CONTEXT_DESTROYED">>,
       <<<<"429">>, "RATE_LIMITED">>,
       <<<<"captcha">>, "CAPTCHA_DETECTED">> >>

MessageWords ==
    {"TimeoutError", "not visible", "detached", "Target closed", "net::ERR_", "Frame", "was",
     "Execution context was destroyed", "429", "captcha"}
Messages == SeqsUpTo(MessageWords, MaxWords)

\* str.lower() of a word
LowerWord(s) ==
    CASE s = "TimeoutError" -> "timeouterror"
      [] s = "Target closed" -> "target closed"
      [] s = "net::ERR_" -> "net::err_"
      [] s = "Frame" -> "frame"
      [] s = "Execution context was destroyed" -> "execution context was destroyed"
      [] OTHER -> s

RECURSIVE LowerWords(_)
LowerWords(words) ==
    IF words = <<>> THEN <<>> ELSE <<LowerWord(Head(words))>> \o LowerWords(Tail(words))

RECURSIVE ClassifyFrom(_, _)
\* the loop of classify_error over the entries from the first of `entries` on
ClassifyFrom(entries, msg) ==
    IF entries = <<>> THEN "UNKNOWN"
    ELSE IF IsSubstring(LowerWords(Head(entries)[1]), LowerWords(msg))
         THEN Head(entries)[2]
         ELSE ClassifyFrom(Tail(entries), msg)

classify_error(msg) == ClassifyFrom(_PATTERN_MAP, msg)

ClassifyIdle ==
    /\ classify_msg = <<>>
    /\ classify_code = "UNKNOWN"

Classify(msg) ==
    /\ classify_msg' = msg
    /\ classify_code' = classify_error(msg)
    /\ OutsideClassify

LateIdle == ProfileIdle /\ CredIdle /\ BlockIdle /\ DiffIdle /\ ClassifyIdle

Init ==
    /\ LifeInit /\ DispatchInit /\ PolicyIdle /\ LoopIdle /\ PipeIdle /\ BatchIdle
    /\ EnvelopeIdle /\ FsmIdle /\ TabsIdle /\ SnapIdle /\ LateIdle

InitPolicy ==
    /\ LifeInit /\ DispatchInit /\ PolicyInit /\ LoopIdle /\ PipeIdle /\ BatchIdle
    /\ EnvelopeIdle /\ FsmIdle /\ TabsIdle /\ SnapIdle /\ LateIdle

NextCred == \E store \in CredStores, value \in CredValues : Resolve(store, value)

SpecCred == Init /\ [][NextCred]_vars

NextClassify == \E msg \in Messages : Classify(msg)

SpecClassify == Init /\ [][NextClassify]_vars

NextDiff ==
    \/ \E host \in DiffHosts : DiffNavigate(host)
    \/ \E raised \in BOOLEAN :
          \E raw \in IF raised THEN {<<>>} ELSE DiffPages : DiffSnapshot(raw, raised)

SpecDiff == Init /\ [][NextDiff]_vars

NextBlock ==
    \E page_title \in Titles, url \in SUBSET UrlPhrases, content \in SUBSET ContentPhrases,
       failure \in BlockFailures :
          IsBlocked(page_title, url, content, failure)

SpecBlock == Init /\ [][NextBlock]_vars

NextProfile ==
    \E name \in ProfileNames :
        \/ create_profile(name)
        \/ load_profile(name)
        \/ delete_profile(name)
        \/ save_credentials(name)
        \/ load_credentials(name)

SpecProfile == Init /\ [][NextProfile]_vars

\* there is no aria text when aria_snapshot raised, and the page is searched
\* for cursor-interactive elements only when the caller asked for them
NextSnap ==
    \E raised, compact, cursor_interactive \in BOOLEAN :
       \E raw \in IF raised THEN {<<>>} ELSE SeqsUpTo(AriaLines, MaxLines),
          els \in IF cursor_interactive THEN CursorLists ELSE {<<>>} :
             do_snapshot(raw, raised, compact, cursor_interactive, els)

SpecSnap == Init /\ [][NextSnap]_vars

NextTabs ==
    \/ \E index \in -1..MaxCreated : switch_page(index)
    \/ \E url \in TabUrls, goto_ok \in BOOLEAN : new_page(url, goto_ok)
    \/ \E index \in -1..MaxCreated : close_page(index)

SpecTabs == Init /\ [][NextTabs]_vars

NextFsm ==
    \/ \E to \in AgentStateName : _transition(to)
    \/ \E to \in ForcedTargets : _force_transition(to)
    \/ bump_epoch
    \/ FsmTick

SpecFsm == Init /\ [][NextFsm]_vars

NextEnvelope ==
    \E success \in BOOLEAN, error \in ErrorSizes, code \in CodeSizes, tree \in TreeSizes,
       text \in TextSizes, refs \in RefsSizes :
          Respond(ResultOf(success, error, code, tree, text, refs))

SpecEnvelope == Init /\ [][NextEnvelope]_vars

NextBatch ==
    \/ \E success \in BOOLEAN : SnapshotBefore(success)
    \/ \E n \in BatchLengths, rm \in {"{}", "mReq"} :
          \E stop \in StopFlagsOf(n) : BatchBegin(n, stop, rm)
    \/ \E verb \in StepVerbs, code \in {"OK", "FAIL", "RATE_LIMITED", "NO_ACTION"},
          produced \in SnapMaps : BatchStep(verb, code, produced)

SpecBatch == Init /\ [][NextBatch]_vars

NextPipe ==
    \/ \E op \in {"action", "snapshot"}, verb \in PipeVerbs \cup {"none"},
          code \in {"NOT_FOUND", "RATE_LIMITED"} :
            /\ op = "snapshot" <=> verb = "none"
            /\ Refused(op, verb, code)
    \/ \E verb \in PipeVerbs, success, page_changed \in BOOLEAN, new_url \in Urls :
          \E rm \in RequestMaps(verb) : Executed(verb, rm, success, page_changed, new_url)
    \/ \E success \in BOOLEAN : SnapshotOp(success)

SpecPipe == Init /\ [][NextPipe]_vars

NextLoop ==
    \/ \E e \in LoopEntries : LoopRecord(e)
    \/ LoopReset

SpecLoop == Init /\ [][NextLoop]_vars

NextPolicy == \E d \in PolicyDomains : GetLimitCall(d)

SpecPolicy == InitPolicy /\ [][NextPolicy]_vars

NextDispatch ==
    \/ ClockTick
    \/ \E s \in Clients, verb \in Verbs : execute_begin(s, verb)
    \/ \E s \in Clients, success \in BOOLEAN, d2 \in Domains : execute_end(s, success, d2)

SpecDispatch == Init /\ [][NextDispatch]_vars

\* ------------------------------------------------------------------------
\* Specification of the session lifecycle
\* ------------------------------------------------------------------------
BatchLens(o) == IF o = "actions" THEN 1..MaxBatch ELSE {0}

StopFlags(o) == IF o = "actions" THEN BOOLEAN ELSE {TRUE}

SaveFlags(o) == IF o = "close" THEN BOOLEAN ELSE {FALSE}

Next ==
    \/ Tick
    \/ \E s \in SessionIds : launch(s)
    \/ \E r \in Reqs, o \in Ops, s \in Targets :
         \E n \in BatchLens(o), stop \in StopFlags(o), sv \in SaveFlags(o) :
            handle_request_inner(r, o, s, n, stop, sv)
    \/ \E r \in Reqs : Acquire(r)
    \/ \E r \in Reqs, out \in ExecOutcomes : Complete(r, out)
    \/ \E r \in Reqs, out \in ExecOutcomes : CompleteCloseSave(r, out)
    \/ \E r \in Reqs, out \in CloseOutcomes : TeardownDone(r, out)
    \/ sweep_idle_sessions
    \/ \E out \in CloseOutcomes : SweepTeardownDone(out)
    \/ cleanup
    \/ \E out \in CloseOutcomes : CleanupTeardownDone(out)

Spec == Init /\ [][Next]_vars

\* ------------------------------------------------------------------------
\* Claims on the session lifecycle (checked under Spec)
\* ------------------------------------------------------------------------
\* a browser call of request r begins in this step (a handler reaches its
\* first await, or a batch goes on to its next step)
StartsBrowserCall(r) ==
    /\ req'[r].pc \in {"exec", "closesave"}
    /\ \/ req[r].pc \notin {"exec", "closesave"}
       \/ req'[r].left < req[r].left

\* request r gets past the lock in this step
PassesLock(r) ==
    /\ req[r].pc \in {"idle", "done", "wait"}
    /\ req'[r] # req[r]
    /\ req'[r].pc # "wait"

\* a client close() of request r returns or raises in this step
ClientCloseEnds(r) ==
    /\ req'[r].op = "close"
    /\ req'[r].pc = "done"
    /\ req'[r] # req[r]

\* C1: within one session at most one request among action, batch, snapshot,
\* screenshot, save and close executes at a time, the executing request is the
\* holder of the session lock, and a batch keeps the lock from step to step.
C1_MutualExclusion ==
    \A s \in SessionIds :
        /\ Cardinality({r \in Reqs : InCS(r) /\ req[r].sid = s}) <= 1
        /\ \A r \in Reqs : InCS(r) /\ req[r].sid = s => lock[s] = r

\* a batch is at a step with a further step still to come while the other
\* request waits for the lock of the same session
C1_Witness ==
    \E r1, r2 \in Reqs :
        /\ r1 # r2
        /\ req[r1].op = "actions" /\ req[r1].pc = "exec" /\ req[r1].left >= 1
        /\ req[r2].pc = "wait" /\ req[r2].sid = req[r1].sid

\* C2 (as claimed): every close of a session - client, idle sweeper or
\* shutdown - runs while holding the session lock, so tier teardown never
\* overlaps a browser call of a request on that session.
C2_EveryCloseHoldsLock ==
    \A s \in SessionIds :
        /\ \A c \in ClosersOf(s) : lock[s] = c
        /\ ClosersOf(s) # {} =>
              ~\E r \in Reqs : req[r].sid = s /\ req[r].pc \in {"exec", "closesave"}

\* C3: while closing is set no new operation starts: a browser call begins
\* only on a registered session whose closing flag is unset, an action,
\* snapshot, screenshot or save that gets the lock of a closing session
\* returns not-found, and setting the flag leaves calls in flight untouched.
C3_NoStartWhileClosing ==
    [][\A r \in Reqs :
          /\ StartsBrowserCall(r) =>
                Contains(registry, req'[r].sid) /\ ~closing[req'[r].sid]
          /\ ( /\ PassesLock(r)
               /\ req'[r].op \in {"action", "snapshot", "screenshot", "save"}
               /\ Contains(registry, req'[r].sid)
               /\ closing[req'[r].sid] )
             => req'[r].pc = "done" /\ req'[r].res = "notfound"
          /\ ( /\ req[r].pc = "exec"
               /\ ~closing[req[r].sid]
               /\ closing'[req[r].sid] )
             => req'[r] = req[r]
      ]_vars

\* the sweeper is tearing a session down, a request that got the lock after
\* the pass began was answered not-found, and the session is still registered
C3_Witness ==
    \E r \in Reqs :
        /\ req[r].pc = "done" /\ req[r].res = "notfound"
        /\ req[r].op \in {"action", "snapshot", "screenshot", "save"}
        /\ sweeper.pc = "teardown" /\ sweeper.cur = req[r].sid
        /\ Contains(registry, req[r].sid) /\ closing[req[r].sid]
        /\ sweeper.now - last_activity[req[r].sid] <= SESSION_IDLE_TTL
        /\ \A r2 \in Reqs \ {r} : req[r2].pc = "idle"

\* C4 (as claimed): close returns success iff the session is no longer
\* listed afterwards; when it returns failure the session is still registered
\* with closing unset.
C4_CloseSuccessIffAbsent ==
    [][\A r \in Reqs : ClientCloseEnds(r) =>
          /\ (req'[r].res = "ok") <=> ~Contains(registry', req'[r].sid)
          /\ req'[r].res # "ok" =>
                Contains(registry', req'[r].sid) /\ ~closing'[req'[r].sid]
      ]_vars

\* C5 (as claimed): when a step of closing a registered session fails
\* (teardown or the cleanup after it) the session stays registered with
\* closing reset and an error is returned; no session stays registered with
\* closing set once no close() is running on it.
C5_FailedCloseKeepsSession ==
    [][/\ \A r \in Reqs :
             (req[r].pc = "teardown" /\ req'[r].pc = "done" /\ req'[r].res # "ok")
             => /\ req'[r].res = "fail"
                /\ Contains(registry', req[r].sid)
                /\ ~closing'[req[r].sid]
       /\ (\A s \in SessionIds :
             Contains(registry, s) /\ closing[s] => ClosersOf(s) # {})'
      ]_vars

\* C6 (as claimed): however closes of one session interleave, at most one
\* tier teardown runs on it at a time.
C6_OneTeardownAtATime ==
    \A s \in SessionIds : Cardinality(ClosersOf(s)) <= 1

\* ------------------------------------------------------------------------
\* Claims on rate limiting (checked under SpecDispatch)
\* ------------------------------------------------------------------------
IsSuffix(a, b) == \E k \in 0..Len(b) : a = SubSeq(b, k + 1, Len(b))

\* how many of the recorded timestamps are at most 60 s old at time t
CountRecent(seq, t) == Cardinality({i \in 1..Len(seq) : t - seq[i] <= WINDOW_SECONDS})

\* C7 (as claimed): for every domain the number of window entries of the
\* trailing 60 seconds never exceeds the domain's per-minute limit.
C7_WindowWithinLimit ==
    \A d \in Domains : Len(_prune(windows[d], clock)) <= _get_limit(d)

\* C8: a window gains an entry only in the step in which a verb outside the
\* exempt set returns successfully, and then exactly one; a failed verb and an
\* exempt verb leave every window without a new entry.
C8_OnlySuccessRecords ==
    [][\A d \in Domains :
          ~IsSuffix(windows'[d], windows[d]) =>
             \E s \in Clients :
                /\ act[s].pc = "exec" /\ act'[s].pc = "idle"
                /\ act[s].verb \notin EXEMPT_ACTIONS
                /\ last'.sid = s /\ last'.code = "OK"
                /\ page_url'[s] = d
                /\ windows'[d] = Append(_prune(windows[d], clock), clock)
      ]_vars

\* a verb outside the exempt set has just failed and no window holds an entry
C8_Witness ==
    /\ last.code = "FAIL"
    /\ last.verb \notin EXEMPT_ACTIONS
    /\ \A d \in Domains : windows[d] = <<>> /\ landed[d] = <<>>

\* C9 (as claimed): a non-exempt request is answered RATE_LIMITED iff more
\* than Q entries landed in the domain's window within the last 60 seconds.
C9_LimitedIffMoreThanQ ==
    [][(last'.code \in {"STARTED", "RATE_LIMITED"} /\ last'.verb \notin EXEMPT_ACTIONS)
       => ( last'.code = "RATE_LIMITED"
            <=> CountRecent(landed[page_url[last'.sid]], clock)
                  > _get_limit(page_url[last'.sid]) )
      ]_vars

\* C9 (amended): a non-exempt request is answered RATE_LIMITED iff at least
\* Q entries were recorded for the domain of the session's active page
\* within the last 60 seconds.
C9_LimitedIffAtLeastQ ==
    [][(last'.code \in {"STARTED", "RATE_LIMITED"} /\ last'.verb \notin EXEMPT_ACTIONS)
       => ( last'.code = "RATE_LIMITED"
            <=> CountRecent(landed[page_url[last'.sid]], clock)
                  >= _get_limit(page_url[last'.sid]) )
      ]_vars

\* a request has just been refused with exactly Q entries in the window
C9_Witness ==
    /\ last.code = "RATE_LIMITED"
    /\ Len(windows[page_url[last.sid]]) = _get_limit(page_url[last.sid])
    /\ landed[page_url[last.sid]] = windows[page_url[last.sid]]

\* C10 (as claimed): every RATE_LIMITED answer carries wait_seconds > 0.
C10_WaitSecondsPositive ==
    last.code = "RATE_LIMITED" => last.wait_seconds > 0

\* ------------------------------------------------------------------------
\* Claims on back-off and on the policy table (checked under SpecDispatch)
\* ------------------------------------------------------------------------
\* C11 (as claimed): when check() refuses at the current time and wait_time()
\* gives w, then with no record() in between check() allows at time + w; and
\* wait_time() is 0 exactly when check() allows.
C11_BackoffSufficient ==
    \A d \in Domains :
        /\ ~check(windows[d], d, clock)
              => check(_prune(windows[d], clock), d,
                       clock + wait_time(windows[d], d, clock))
        /\ (wait_time(windows[d], d, clock) = 0) <=> check(windows[d], d, clock)

\* the patterns of a table, other than "default", that occur in the domain
MatchingEntries(items, domain) ==
    {i \in 1..Len(items) :
        /\ items[i].pattern # "default"
        /\ IsSubstring(Chars(items[i].pattern), Chars(domain))}

\* the limit of the most specific (longest) pattern occurring in the domain,
\* the default when no pattern occurs in it
MostSpecificLimit(items, domain) ==
    LET hits == MatchingEntries(items, domain) IN
    IF hits = {} THEN DefaultLimit(items)
    ELSE LET best == CHOOSE i \in hits :
                        \A j \in hits : Len(Chars(items[j].pattern))
                                          <= Len(Chars(items[i].pattern))
         IN items[best].limit

\* C12 (as claimed): the limit applied to a domain is that of the most
\* specific pattern among the patterns occurring in the domain, whatever the
\* order of the table; the default applies only when no pattern occurs in it.
C12_MostSpecificPatternWins ==
    lookup.domain # "none" =>
        lookup.limit = MostSpecificLimit(EffectiveLimits(limits), lookup.domain)

\* ------------------------------------------------------------------------
\* Claims on the idle sweeper (checked under Spec)
\* ------------------------------------------------------------------------
\* C13 (as claimed): a pass closes only registered, non-closing sessions idle
\* for more than the TTL, and an id is listed as reaped exactly when the
\* close() of the pass removed that session from the registry.
C13_ReapedExactlyRemoved ==
    [][/\ (sweeper'.pc = "teardown" /\ sweeper'.cur # sweeper.cur)
             => IdleTest(sweeper'.cur, registry', closing, sweeper'.now)
       /\ (sweeper.pc = "teardown" /\ sweeper'.pc \in {"teardown", "sleep"}
                                   /\ sweeper' # sweeper)
             => ( Len(sweeper'.reaped) = Len(sweeper.reaped) + 1
                  <=> ( Contains(registry, sweeper.cur)
                        /\ ~Contains(registry', sweeper.cur) ) )
      ]_vars

\* the sweeper task while the server runs: one client at a time, the clock and
\* the passes;
\* a sleep ends, a teardown in progress returns, and a teardown that is tried
\* again and again succeeds at some point
NextLive ==
    \/ Tick
    \/ \E s \in SessionIds : launch(s)
    \/ \E o \in Ops, s \in Targets :
         \E n \in BatchLens(o), stop \in StopFlags(o), sv \in SaveFlags(o) :
            handle_request_inner("r1", o, s, n, stop, sv)
    \/ \E out \in ExecOutcomes : Complete("r1", out)
    \/ \E out \in ExecOutcomes : CompleteCloseSave("r1", out)
    \/ \E out \in CloseOutcomes : TeardownDone("r1", out)
    \/ sweep_idle_sessions
    \/ \E out \in CloseOutcomes : SweepTeardownDone(out)

SpecLive ==
    /\ Init
    /\ [][NextLive]_vars
    /\ WF_vars(sweep_idle_sessions)
    /\ WF_vars(\E out \in CloseOutcomes : TeardownDone("r1", out))
    /\ WF_vars(\E out \in CloseOutcomes : SweepTeardownDone(out))
    /\ SF_vars(SweepTeardownDone("ok"))

\* C14: a registered session that has been idle for longer than the TTL is
\* removed from the registry unless an operation touches it again, whatever
\* errors earlier passes or the close of other sessions have met.
C14_IdleSessionEventuallyReaped ==
    \A s \in SessionIds :
        (Contains(registry, s) /\ now - last_activity[s] > SESSION_IDLE_TTL)
        ~> (~Contains(registry, s) \/ now - last_activity[s] <= SESSION_IDLE_TTL)

\* the close of s1 failed in this pass (listed although still registered),
\* no client ever asked for anything, and the pass went on to close s2
C14_Witness ==
    /\ sweeper.pc = "teardown" /\ sweeper.cur = "s2"
    /\ sweeper.reaped = <<"s1">> /\ Contains(registry, "s1")
    /\ \A r \in Reqs : req[r].pc = "idle"

\* ------------------------------------------------------------------------
\* Claims on the loop detector (checked under SpecLoop)
\* ------------------------------------------------------------------------
\* C15 (as claimed): record warns iff, with the new entry added, the window
\* holds at least threshold entries with the same action hash whose
\* fingerprint is more than 0.8 similar to the current fingerprint.
C15_WarnsIffSimilarRepeats ==
    loop_window # <<>> =>
        LET e == loop_window[Len(loop_window)] IN
        ( loop_result.severity # "None"
          <=> Cardinality({i \in 1..Len(loop_window) :
                 /\ loop_window[i].hash = e.hash
                 /\ e.fp # NoFingerprint /\ loop_window[i].fp # NoFingerprint
                 /\ similarity(e.fp, loop_window[i].fp) > 20160}) >= LOOP_THRESHOLD )

\* C15 (amended): record warns iff, with the new entry added, the window
\* holds at least threshold entries with the same action hash that, when the
\* call carries a fingerprint, carry one more than 0.8 similar to it; a call
\* without a fingerprint counts every entry with the same action hash.
C15_WarnsIffRepeats ==
    loop_window # <<>> =>
        LET e == loop_window[Len(loop_window)] IN
        ( loop_result.severity # "None"
          <=> Cardinality({i \in 1..Len(loop_window) :
                 /\ loop_window[i].hash = e.hash
                 /\ e.fp # NoFingerprint =>
                       /\ loop_window[i].fp # NoFingerprint
                       /\ similarity(e.fp, loop_window[i].fp) > 20160}) >= LOOP_THRESHOLD )

\* the action was recorded for at least the threshold-th time, on a page
\* unlike the earlier ones, and record() gave no warning
C15_Witness ==
    /\ loop_window # <<>>
    /\ loop_window[Len(loop_window)].fp # NoFingerprint
    /\ CountSameHash(loop_window, loop_window[Len(loop_window)]) >= LOOP_THRESHOLD
    /\ loop_result.severity = "None"

\* C16 (as claimed): the severity of a warning follows the number c of
\* matching occurrences (same action hash and similar page) in the window:
\* WARNING for threshold..threshold+1, STUCK for threshold+2..threshold+3,
\* CRITICAL from threshold+4.
C16_SeverityByMatches ==
    loop_result.severity # "None" =>
        loop_result.severity
           = SeverityOf(fp_matches(loop_window, loop_window[Len(loop_window)]))

\* ------------------------------------------------------------------------
\* Claims on the action pipeline of one session (checked under SpecPipe)
\* ------------------------------------------------------------------------
\* the session has served one successful snapshot and then k clicks, all of
\* them executed on the page of the snapshot with the stored ref map
ClicksAfterSnapshot(k) ==
    /\ issued = k + 1
    /\ ref_map = "mSnap"
    /\ reply.verb = "click" /\ reply.code \in {"OK", "FAIL"}
    /\ Len(loop_window) = k
    /\ \A i \in 1..k : loop_window[i] = [hash |-> "click", fp |-> from_snapshot(cur_url, ref_map)]

\* C17 (as claimed): after one snapshot on a fresh session, of four identical
\* clicks on the same page the first two come back without loop_warning, the
\* third and the fourth with one, and the fourth says STUCK or CRITICAL.
C17_FourthClickStuck ==
    /\ \A k \in 1..2 : ClicksAfterSnapshot(k) => reply.loop_warning = "None"
    /\ \A k \in 3..4 : ClicksAfterSnapshot(k) => reply.loop_warning # "None"
    /\ ClicksAfterSnapshot(4) => reply.loop_warning \in {"STUCK", "CRITICAL"}

\* C17 (amended): the first two come back without loop_warning, the third
\* and the fourth with a loop_warning of severity WARNING.
C17_ThirdAndFourthClickWarn ==
    /\ \A k \in 1..2 : ClicksAfterSnapshot(k) => reply.loop_warning = "None"
    /\ \A k \in 3..4 : ClicksAfterSnapshot(k) => reply.loop_warning = "WARNING"

\* the fourth identical click after the snapshot has been answered
C17_Witness == ClicksAfterSnapshot(4) /\ reply.loop_warning = "WARNING"

C19_CountsSuccessfulActions ==
    [][issued' = issued + 1 =>
         IF reply'.op = "action" /\ reply'.code = "OK"
         THEN action_count' = action_count + 1
         ELSE action_count' = action_count
      ]_vars

\* C20 (as claimed): the stored ref map changes only when a snapshot
\* succeeds, and then to the map the snapshot produced; a map sent along with
\* a request is never stored.
C20_RefMapOnlyBySnapshot ==
    [][issued' = issued + 1 =>
         /\ ref_map' # ref_map =>
               /\ reply'.op = "snapshot" \/ reply'.verb = "snapshot"
               /\ reply'.code = "OK"
               /\ ref_map' = "mSnap"
         /\ ref_map' = "mReq" => ref_map = "mReq"
      ]_vars

\* C21: within one batch, a step that runs its verb after a successful
\* snapshot step is handed the refs that snapshot produced, the most recent
\* one of the batch, whatever was stored or sent when the batch began.
C21_StepsUseBatchSnapshot ==
    [][( /\ batch.pc = "run" /\ Len(results') = Len(results) + 1
         /\ results'[Len(results')] \in {"OK", "FAIL"}
         /\ last_snap # "none" )
       => used' = last_snap
      ]_vars

\* a snapshot had stored mSnap, the batch came with a map of its own, its
\* snapshot step produced mSnap2 and the step after it was handed mSnap2
C21_Witness ==
    /\ reply.op = "snapshot" /\ reply.code = "OK"
    /\ batch.rm = "mReq"
    /\ Len(results) = 2 /\ results[1] = "OK"
    /\ last_snap = "mSnap2" /\ used = "mSnap2"
    /\ loop_window # <<>>

\* C22: the steps run in list order; with stop_on_error the batch ends at the
\* first step that fails, stopped_at is its 0-based index, the results list
\* has stopped_at + 1 entries and no later step has run.
C22_StopsAtFirstFailure ==
    /\ batch.i = Len(results)
    /\ (batch.pc = "done" /\ batch.stop /\ batch.n \in 1..BATCH_LIMIT) =>
          LET len == Len(results) IN
          /\ \A k \in 1..(len - 1) : results[k] = "OK"
          /\ action_count = Cardinality({k \in 1..len : results[k] \in {"OK", "FAIL"}})
          /\ IF results[len] = "OK"
             THEN len = batch.n /\ batch_out.stopped_at = -1 /\ batch_out.success
             ELSE /\ batch_out.stopped_at = len - 1
                  /\ ~batch_out.success
                  /\ batch_out.error = results[len]

\* of three steps the second failed: two results, stopped_at 1
C22_Witness ==
    /\ batch.pc = "done" /\ batch.stop /\ batch.n = 3
    /\ results = <<"OK", "FAIL">>
    /\ batch_out.stopped_at = 1
    /\ action_count = 2

\* C23: a batch of more than 20 steps is answered with success false and
\* "Batch limited to 20 actions" before any step runs: the page, the action
\* counter, the loop window, the ref map and the rate-limit windows stay as
\* they are; a batch of exactly 20 steps is taken on.
C23_LongBatchRejected ==
    [][batch.pc = "idle" /\ batch'.pc # "idle" =>
         /\ batch'.n > BATCH_LIMIT =>
               /\ batch'.pc = "done"
               /\ ~batch_out'.success
               /\ batch_out'.error = "Batch limited to 20 actions"
               /\ results' = <<>>
               /\ UNCHANGED <<page_url, action_count, loop_window, ref_map, windows>>
         /\ batch'.n = BATCH_LIMIT => batch'.pc = "run"
      ]_vars

\* a session with a stored ref map has turned away a batch of 21 steps
C23_Witness ==
    /\ batch.pc = "done" /\ batch.n = BATCH_LIMIT + 1
    /\ batch_out.error = "Batch limited to 20 actions"
    /\ ref_map = "mSnap"
    /\ results = <<>> /\ action_count = 0

\* C24 (as claimed): whatever the result, the response that is sent is at
\* most MAX_SNAPSHOT_BYTES characters long when serialized.
C24_EnvelopeWithinCap == Serialized(sent) <= MAX_SNAPSHOT_BYTES

\* C25 (as claimed): when the response was truncated, the success, error and
\* code fields of the result are in it as they were.
C25_TruncationKeepsStatusFields ==
    HasKey(sent, "truncated") =>
        \A key \in {"success", "error", "code"} :
            HasKey(handled, key) =>
                HasKey(sent, key) /\ Get(sent, key) = Get(handled, key)

\* the transition table as the specification prints it, row by row
TransitionTable ==
    [IDLE |-> {"LAUNCHING"},
     LAUNCHING |-> {"OBSERVING", "ERROR"},
     OBSERVING |-> {"PLANNING", "ERROR"},
     PLANNING |-> {"ACTING", "DONE", "ERROR"},
     ACTING |-> {"EVALUATING", "ERROR"},
     EVALUATING |-> {"OBSERVING", "ESCALATING", "DONE", "ERROR"},
     ESCALATING |-> {"LAUNCHING", "ERROR"},
     RECOVERING |-> {"OBSERVING", "ESCALATING", "ERROR"},
     DONE |-> {"TEARING_DOWN", "IDLE"},
     ERROR |-> {"RECOVERING", "TEARING_DOWN", "IDLE"},
     TEARING_DOWN |-> {"IDLE"}]

C27_ForcedTransitionsSucceed ==
    /\ fsm.name \in AgentStateName
    /\ \A to \in ForcedTargets :
          /\ force_result(fsm, to).raised = "none"
          /\ force_result(fsm, to).state.name = to
    /\ fsm_event.call = "_force_transition" =>
          fsm_event.raised = "none" /\ fsm_event.to \in ForcedTargets

\* TEARING_DOWN was forced from PLANNING, for which the table does not list it
C27_Witness ==
    /\ fsm_event.call = "_force_transition" /\ fsm_event.raised = "none"
    /\ fsm_event.from = "PLANNING"
    /\ fsm.name = "TEARING_DOWN"

\* C28 (as claimed): after a transition into ESCALATING or into RECOVERING
\* the epoch is greater than it was before.
C28_EpochGrowsOnEscalation ==
    [][( /\ fsm'.name \in {"ESCALATING", "RECOVERING"}
         /\ fsm'.name # fsm.name )
       => fsm'.epoch > fsm.epoch
      ]_vars

\* C29: after any sequence of switch_page, new_page and close_page calls,
\* also with indexes out of range, the session has an active page and it is
\* one of the pages the context has open; closing the last tab leaves one
\* blank page open, which is the active one.
C29_ActivePageIsOpen ==
    /\ pages # <<>>
    /\ \E i \in 1..Len(pages) : pages[i].id = active
    /\ \A i, j \in 1..Len(pages) : pages[i].id = pages[j].id => i = j
    /\ (tab_event.call = "close_page" /\ tab_event.returned = "True"
          /\ tab_event.open_before = 1)
        => pages = <<[id |-> created, url |-> "about:blank"]>> /\ active = created

\* the only tab was closed: a blank page, newly created, is the active one
C29_Witness ==
    /\ tab_event.call = "close_page" /\ tab_event.returned = "True"
    /\ tab_event.index = 0 /\ tab_event.open_before = 1
    /\ pages = <<[id |-> 3, url |-> "about:blank"]>>
    /\ active = 3 /\ created = 3

\* C30: after a successful snapshot that handed out N refs, ARIA refs and
\* cursor-interactive refs together, the stored ref map has exactly N entries,
\* keyed @e1 .. @eN without gap or duplicate, and every @eK written in the
\* returned tree is a key of the map.
C30_RefsNumberedWithoutGaps ==
    snap.success =>
        LET keys == {e.key : e \in session_refs} IN
        /\ keys = 1..snap.assigned
        /\ Cardinality(session_refs) = snap.assigned
        /\ \A i \in 1..Len(snap.tree) :
              snap.tree[i].marker # 0 => snap.tree[i].marker \in keys
        /\ \A i, j \in 1..Len(snap.tree) :
              (snap.tree[i].marker # 0 /\ snap.tree[i].marker = snap.tree[j].marker) => i = j

\* two ARIA refs and, numbered on from them, one cursor-interactive ref
C30_Witness ==
    /\ snap.success /\ snap.assigned = 3
    /\ [key |-> 1, role |-> "interactive", name |-> "Save"] \in session_refs
    /\ [key |-> 2, role |-> "content", name |-> "Save"] \in session_refs
    /\ [key |-> 3, role |-> "clickable", name |-> "Menu"] \in session_refs

\* what the claim takes a valid profile name to be
NameAsClaimed(name) ==
    /\ name # <<>>
    /\ AllIn(name, NameClass)
    /\ ~HasDotDot(name)
    /\ name[1] # "/"

\* C31 (as claimed): a profile operation accepts a name exactly when it is
\* non-empty, made only of characters of [A-Za-z0-9._-], without `..` and
\* without a leading slash, and an operation on a rejected name fails without
\* reading or writing any path.
C31_NamesValidatedByCharacters ==
    profile_event.op # "none" =>
        /\ (profile_event.err = "none") <=> NameAsClaimed(profile_event.name)
        /\ profile_event.err # "none" =>
              touched = {} /\ disk = profile_event.before

\* C39 (as claimed): the directory of an accepted name lies properly below
\* the profile root, and a successful delete_profile(name) removes nothing
\* outside that one profile's directory.
C39_DeleteStaysInsideProfile ==
    (profile_event.op = "delete" /\ profile_event.result = "ok") =>
        /\ ProfileRoot \in disk
        /\ \A q \in profile_event.before \ disk : IsUnder(q, <<profile_event.name>>)

RECURSIVE EachTagByItsKey(_)
\* each tag of a known key replaced by that key's value, all else as it was
EachTagByItsKey(value) ==
    IF value = <<>> THEN <<>>
    ELSE <<IF IsTag(Head(value)) /\ Head(value)[2] \in CredKeys
           THEN <<"text", Stored[Head(value)[2]]>> ELSE Head(value)>>
           \o EachTagByItsKey(Tail(value))

\* C32 (as claimed): with credentials stored, every <secret>key</secret> of
\* the value is replaced by the stored value of its own key, a value that is
\* a key name in its entirety is replaced by that key's value, and any other
\* value comes back unchanged.
C32_EachTagResolvedByItsKey ==
    cred_call[1] = "stored" =>
        LET value == cred_call[2] IN
        cred_out = IF IsKeyName(value) THEN <<<<"text", Stored[value[1][2]]>>>>
                   ELSE EachTagByItsKey(value)

\* C33 (as claimed): a page whose title contains "access denied",
\* "403 forbidden" or "blocked", and no Cloudflare or DataDome marker, is
\* classified as protection `generic`.
C33_DeniedTitleIsGeneric ==
    LET title == Lowered(blocked_call[1]) IN
    (/\ blocked_call[4] # "title"
     /\ title \cap {"access denied", "403 forbidden", "blocked"} # {}
     /\ title \cap {"just a moment", "attention required", "datadome"} = {})
        => blocked_out = "generic"

PageKeys(page) ==
    LET worthy == {i \in 1..Len(page) :
                     \/ page[i].cls = "interactive"
                     \/ page[i].cls = "content" /\ page[i].name # "none"}
        same(i) == {j \in worthy : page[j] = page[i]}
    IN {<<page[i].cls, page[i].name,
          IF same(i) = {i} THEN -1 ELSE Cardinality({j \in same(i) : j < i})>> : i \in worthy}

C35_EveryPatternReachable ==
    \A k \in 1..Len(_PATTERN_MAP) :
        LowerWords(classify_msg) = LowerWords(_PATTERN_MAP[k][1])
            => classify_code = _PATTERN_MAP[k][2]

\* C36: a non-exempt request is refused or let through by the window of the
\* host its page is on when it comes in, whatever the other windows hold, and
\* a navigate that succeeds and lands on another host adds its entry, stamped
\* with the time of the recording, to the window of the host it landed on and
\* leaves the window of the host it came from as it was.
C36_CheckedBeforeRecordedAfter ==
    [][
        /\ (last'.code \in {"RATE_LIMITED", "STARTED"} /\ last'.verb \notin EXEMPT_ACTIONS) =>
              LET d == page_url[last'.sid] IN
              (last'.code = "STARTED") <=> (Len(_prune(windows[d], clock)) < _get_limit(d))
        /\ (/\ last'.code = "OK"
            /\ last'.verb = "navigate"
            /\ page_url'[last'.sid] # page_url[last'.sid]) =>
              LET from == page_url[last'.sid]
                  to == page_url'[last'.sid]
              IN /\ windows'[from] = windows[from]
                 /\ landed'[from] = landed[from]
                 /\ Len(windows'[to]) >= 1
                 /\ windows'[to][Len(windows'[to])] = clock
                 /\ landed'[to] = Append(landed[to], clock)
    ]_vars

\* a navigate came from example.com and landed on www.linkedin.com when that
\* host's window was already full: it was let through and recorded there
C36_Witness ==
    /\ last.code = "OK" /\ last.verb = "navigate"
    /\ page_url[last.sid] = "www.linkedin.com"
    /\ Len(windows["www.linkedin.com"]) > _get_limit("www.linkedin.com")
    /\ windows["example.com"] = <<>>

\* C37: a step answered with RATE_LIMITED does not run its verb, leaves the
\* session's action counter, loop-detector window and stored ref map as they
\* were, and adds no entry to any rate-limit window (a window only loses the
\* entries that have expired).
C37_RefusalLeavesSessionAlone ==
    [][
        (results' # results /\ results' # <<>> /\ results'[Len(results')] = "RATE_LIMITED") =>
            /\ used' = "none"
            /\ action_count' = action_count
            /\ loop_window' = loop_window
            /\ loop_result' = loop_result
            /\ ref_map' = ref_map
            /\ landed' = landed
            /\ \A d \in Domains : IsSuffix(windows'[d], windows[d])
    ]_vars

\* a step refused after eight steps of the same batch went through
C37_Witness ==
    /\ results # <<>>
    /\ results[Len(results)] = "RATE_LIMITED"
    /\ action_count >= 8
    /\ Len(windows["example.com"]) = 8

\* C38: a batch sent with stop_on_error false runs every one of its steps,
\* in order, whether or not steps fail, and its response says success true,
\* stopped_at null and carries no top-level error; a failure shows only in
\* the step's entry of results.
C38_WithoutStopEveryStepRuns ==
    (~batch.stop /\ batch.n > 0 /\ ~TooLong(batch.n)) =>
        /\ batch.pc = "run" => batch.i = Len(results) /\ batch.i < batch.n
        /\ batch.pc = "done" =>
              /\ Len(results) = batch.n
              /\ batch_out = [success |-> TRUE, stopped_at |-> -1, error |-> "none"]

\* a finished batch of three steps without stop_on_error, two of which failed
C38_Witness ==
    /\ batch.pc = "done" /\ ~batch.stop /\ batch.n = 3
    /\ Len(results) = 3
    /\ results[1] # "OK" /\ results[2] # "OK" /\ results[3] = "OK"
    /\ batch_out.success

\* C40: the epoch of the FSM never goes down and changes only in bump_epoch,
\* which raises it by exactly one and leaves the state name, since_ms and
\* the deadline as they were; every validated or forced transition keeps the
\* epoch.
C40_EpochOnlyByBump ==
    [][
        /\ fsm'.epoch >= fsm.epoch
        /\ fsm'.epoch # fsm.epoch => fsm_event'.call = "bump_epoch"
        /\ (fsm_event'.call = "bump_epoch" /\ fsm' # fsm) =>
              /\ fsm'.epoch = fsm.epoch + 1
              /\ fsm'.name = fsm.name
              /\ fsm'.since_ms = fsm.since_ms
              /\ fsm'.deadline_ms = fsm.deadline_ms
        /\ (fsm_event'.call \in {"_transition", "_force_transition"}
              /\ (fsm' # fsm \/ fsm_event' # fsm_event)) =>
              fsm'.epoch = fsm.epoch
    ]_vars

\* the epoch was bumped twice in ACTING, the second time after the clock had
\* moved on from the entry into the state
C40_Witness ==
    /\ fsm_event.call = "bump_epoch"
    /\ fsm.name = "ACTING" /\ fsm.epoch = 2
    /\ fsm.since_ms < fsm_now
    /\ fsm.deadline_ms = 30000

====
